---- MODULE Spec2Model ----
(***************************************************************************)
(* Verification model of the plist-rs decoders: the binary reader          *)
(* (src/src/reader/binary.rs), the markup reader (src/src/reader/xml.rs)   *)
(* and the dispatcher (src/src/reader/mod.rs).                             *)
(*                                                                         *)
(* Bytes are integers 0..255, a source is a sequence of bytes, the cursor  *)
(* is a 0-based offset.  A u64 is kept as four 16-bit limbs, most          *)
(* significant first, because 64-bit quantities do not fit the checker's   *)
(* integers.  Text is a sequence of character codes.                       *)
(***************************************************************************)
EXTENDS Integers, Sequences, FiniteSets, TLC

VARIABLES
    src,            \* the byte source handed to the binary reader / dispatcher
    tokens,         \* the events the markup tokenizer yields for the source read from offset 0
    overflowChecks, \* TRUE: build with arithmetic overflow checks (debug profile)
    castMode,       \* what an out-of-range float->int `as` cast yields in this build
    pos,            \* stream cursor of the binary reader
    offsets,        \* offset table read by trailer()
    refSize,        \* ref_size read by trailer()
    stack,          \* frames of array()/dict() calls in progress
    cur,            \* the object index the pending object() call was given
    pc,             \* position of the decode call
    result,         \* what the last call returned; the decode's outcome when pc = "done"
    taken,          \* number of events the markup reader consumed
    entered,        \* last object() dispatch: index, tag, cursor at decoder entry, role
    entry,          \* the entry point that was called
    steps,          \* ghost: number of steps the decode call has taken
    shape,          \* ghost: the description the source was generated from
    aux             \* ghost: second outcome kept for comparisons

vars == <<src, tokens, overflowChecks, castMode, pos, offsets, refSize,
          stack, cur, pc, result, taken, entered, entry, steps, shape, aux>>

(***************************************************************************)
(* Values (src/src/plist.rs).  Every value has the same record shape so    *)
(* that any two can be compared: t is the variant, s the scalar payload    *)
(* (a sequence of integers), c the children.  A Dict keeps its entries as  *)
(* "Entry" values sorted by key, one per key: two dictionaries are equal   *)
(* exactly when they map the same keys to equal values.                    *)
(***************************************************************************)
V(t, s, c) == [t |-> t, s |-> s, c |-> c]

NoValue == V("None", <<>>, <<>>)

PBoolean(b) == V("Boolean", <<IF b THEN 1 ELSE 0>>, <<>>)

PInteger(i) == V("Integer", i, <<>>)

PReal(f) == V("Real", f, <<>>)

PDateTime(t) == V("DateTime", t, <<>>)

PData(bytes) == V("Data", bytes, <<>>)

PString(chars) == V("String", chars, <<>>)

PArray(vs) == V("Array", <<>>, vs)

PDict(entries) == V("Dict", <<>>, entries)

Entry(key, val) == V("Entry", key, <<val>>)

RECURSIVE LexLess(_, _)
LexLess(a, b) ==
    IF Len(b) = 0 THEN FALSE
    ELSE IF Len(a) = 0 THEN TRUE
    ELSE IF a[1] # b[1] THEN a[1] < b[1]
    ELSE LexLess(Tail(a), Tail(b))

RECURSIVE DictInsert(_, _, _)
\* HashMap::insert: the new pair replaces any pair with the same key.
DictInsert(entries, key, val) ==
    IF Len(entries) = 0 THEN <<Entry(key, val)>>
    ELSE IF entries[1].s = key THEN <<Entry(key, val)>> \o Tail(entries)
    ELSE IF LexLess(key, entries[1].s) THEN <<Entry(key, val)>> \o entries
    ELSE <<entries[1]>> \o DictInsert(Tail(entries), key, val)

(***************************************************************************)
(* Events of the markup tokenizer and results (src/src/result.rs).         *)
(***************************************************************************)
Ev(ty, name, text) == [ty |-> ty, name |-> name, text |-> text]

NoEvent == Ev("None", "", <<>>)

\* Outcome of a call: k is "Ok", "Err" or "Panic"; e the Error variant, a its
\* integer arguments, ev its event argument; v the value; p the cursor
\* (or event index) the call left behind.
Res(k, e, a, ev, v, p) == [k |-> k, e |-> e, a |-> a, ev |-> ev, v |-> v, p |-> p]

Ok(v, p) == Res("Ok", "", <<>>, NoEvent, v, p)

Err(e, a, p) == Res("Err", e, a, NoEvent, NoValue, p)

ErrEv(ev, p) == Res("Err", "UnexpectedXmlEvent", <<>>, ev, NoValue, p)

Panic(why, p) == Res("Panic", why, <<>>, NoEvent, NoValue, p)

\* The outcome with the cursor dropped: what the caller of a decode sees.
Outcome(r) == [r EXCEPT !.p = 0]

NoResult == Res("None", "", <<>>, NoEvent, NoValue, 0)

IoError(p) == Err("IoError", <<>>, p)

(***************************************************************************)
(* Integer helpers.                                                        *)
(***************************************************************************)
Min(a, b) == IF a < b THEN a ELSE b

\* A count or offset too large for any source of the model.
Huge == 16384 * 65536

RECURSIVE BitAnd(_, _, _)
BitAnd(a, b, n) ==
    IF n = 0 THEN 0
    ELSE (a % 2) * (b % 2) + 2 * BitAnd(a \div 2, b \div 2, n - 1)

RECURSIVE Pow2(_)
Pow2(n) == IF n = 0 THEN 1 ELSE 2 * Pow2(n - 1)

be_u16(buf) == <<0, 0, 0, buf[1] * 256 + buf[2]>>

be_u32(buf) == <<0, 0, buf[1] * 256 + buf[2], buf[3] * 256 + buf[4]>>

be_u64(buf) ==
    <<buf[1] * 256 + buf[2], buf[3] * 256 + buf[4],
      buf[5] * 256 + buf[6], buf[7] * 256 + buf[8]>>

\* `x as usize` where the result is used as a count, an index or an offset.
ToUsize(u) ==
    IF u[1] = 0 /\ u[2] = 0 /\ u[3] < 16384 THEN u[3] * 65536 + u[4] ELSE Huge

\* `x as i64`: the same 64 bits read as two's complement, kept as
\* <<negative?, magnitude limbs>>.
RECURSIVE NegateLimbs(_, _)
NegateLimbs(u, i) ==
    \* two's complement negation of the limbs from position i to the end:
    \* <<limbs, carry out>>
    IF i > Len(u) THEN <<<<>>, 1>>
    ELSE LET rest == NegateLimbs(u, i + 1)
             sum == (65535 - u[i]) + rest[2]
         IN <<<<sum % 65536>> \o rest[1], sum \div 65536>>

\* A cast that keeps the 64 bits as an unsigned magnitude.
AsI64_unsigned(u) == <<0>> \o u

AsI64(u) ==
    IF u[1] >= 32768 THEN <<1>> \o NegateLimbs(u, 1)[1] ELSE <<0>> \o u

(***************************************************************************)
(* The byte source: Read::read_exact, Read::take + read_to_end.            *)
(***************************************************************************)
\* read_exact of n bytes at offset p: all of them or an I/O error.
ReadExact(p, n) ==
    IF p + n <= Len(src)
    THEN Res("Ok", "", SubSeq(src, p + 1, p + n), NoEvent, NoValue, p + n)
    ELSE IoError(Len(src))

\* input.take(n).read_to_end(buf): up to n bytes, fewer at the end of the
\* source, never an error on an in-memory source.
TakeToEnd(p, n) ==
    LET stop == IF p >= Len(src) THEN p ELSE Min(p + n, Len(src))
    IN Res("Ok", "", SubSeq(src, p + 1, stop), NoEvent, NoValue, stop)

(***************************************************************************)
(* binary.rs: size validation and sized integers.                          *)
(***************************************************************************)
\* validate_size, in u8 arithmetic: `!size + 1` overflows for size = 0, which
\* panics when the build checks overflow and wraps to 0 when it does not.
validate_size(size) ==
    LET sum == (255 - size) + 1
    IN IF sum > 255 /\ overflowChecks THEN Panic("attempt to add with overflow", 0)
       ELSE IF BitAnd(size, sum % 256, 8) = size /\ size \div 16 = 0
            THEN Res("Ok", "", <<size>>, NoEvent, NoValue, 0)
            ELSE Err("InvalidIntegerSize", <<>>, 0)

\* sized_int on a chunk that holds at least `size` bytes.
sized_int(buf, size) ==
    CASE size = 1 -> <<0, 0, 0, buf[1]>>
      [] size = 2 -> be_u16(buf)
      [] size = 4 -> be_u32(buf)
      [] size = 8 -> be_u64(buf)

RECURSIVE Chunks(_, _)
\* buf.chunks(size) for size > 0: the last chunk may be short.
Chunks(buf, size) ==
    IF Len(buf) = 0 THEN <<>>
    ELSE IF Len(buf) <= size THEN <<buf>>
    ELSE <<SubSeq(buf, 1, size)>> \o Chunks(SubSeq(buf, size + 1, Len(buf)), size)

\* sized_ints: `count` integers of `size` bytes from offset p, each taken
\* `as usize` by every caller.  A source that ends early yields fewer
\* integers; a short last chunk, or size 0, panics.
sized_ints(p, size, count) ==
    LET collect(got, cs) ==
            Res("Ok", "", [i \in 1..Len(cs) |-> ToUsize(sized_int(cs[i], size))],
                NoEvent, NoValue, got.p)
        ints(got) ==
            IF size = 0 THEN Panic("chunk size must be non-zero", got.p)
            ELSE IF Len(got.a) % size # 0 THEN Panic("index out of bounds", got.p)
            ELSE collect(got, Chunks(got.a, size))
    IN IF count >= Huge THEN Panic("capacity overflow", p)
       ELSE ints(TakeToEnd(p, size * count))

\* `1u8 << n` for n in 0..15: a shift by 8 or more panics when the build
\* checks overflow and is taken modulo 8 when it does not.
Shl1(n) ==
    IF n >= 8 /\ overflowChecks THEN -1 ELSE Pow2(n % 8)

\* read_sized: a width byte whose low nibble is log2 of the width, then the
\* payload.  Ok carries the payload bytes; its length is the width.
read_sized(p) ==
    LET payload(len, size) ==
            IF size.k # "Ok" THEN [size EXCEPT !.p = len.p]
            ELSE ReadExact(len.p, size.a[1])
        width(len, sh) ==
            IF sh < 0 THEN Panic("attempt to shift left with overflow", len.p)
            ELSE payload(len, validate_size(sh))
        sized(len) ==
            IF len.k # "Ok" THEN len ELSE width(len, Shl1(len.a[1] % 16))
    IN sized(ReadExact(p, 1))

\* read_int: the marker's low nibble, or a sized integer after a 0xF nibble.
\* Ok carries the u64 as limbs.
read_int(p) ==
    LET value(sized) ==
            IF sized.k # "Ok" THEN sized
            ELSE [sized EXCEPT !.a = sized_int(sized.a, Len(sized.a))]
        marker(buf) ==
            IF buf.k # "Ok" THEN buf
            ELSE IF buf.a[1] % 16 = 15 THEN value(read_sized(buf.p))
            ELSE [buf EXCEPT !.a = <<0, 0, 0, buf.a[1] % 16>>]
    IN marker(ReadExact(p, 1))

\* trailer: the last 26 bytes, then the offset table.  Ok carries
\* <<root, ref_size>> followed by the offsets.
trailer ==
    LET table(root, ref_size, offs) ==
            IF offs.k # "Ok" THEN offs
            ELSE [offs EXCEPT !.a = <<root, ref_size>> \o offs.a]
        fields(t, offset_size, ref_size) ==
            IF offset_size.k # "Ok" THEN [offset_size EXCEPT !.p = Len(src)]
            ELSE IF ref_size.k # "Ok" THEN [ref_size EXCEPT !.p = Len(src)]
            ELSE table(ToUsize(be_u64(SubSeq(t, 11, 18))), ref_size.a[1],
                       sized_ints(ToUsize(be_u64(SubSeq(t, 19, 26))), offset_size.a[1],
                                  ToUsize(be_u64(SubSeq(t, 3, 10)))))
        last26(t) == fields(t, validate_size(t[1]), validate_size(t[2]))
    IN IF Len(src) < 26 THEN IoError(0)
       ELSE last26(SubSeq(src, Len(src) - 25, Len(src)))

(***************************************************************************)
(* Floating point.  An f64 is kept as its fields                           *)
(* <<sign, biased exponent, fraction bits 51..48, 47..32, 31..16, 15..0>>. *)
(***************************************************************************)
\* be_f64: transmute of be_u64, read as the IEEE-754 binary64 fields.
be_f64(buf) ==
    <<buf[1] \div 128, (buf[1] % 128) * 16 + buf[2] \div 16, buf[2] % 16,
      buf[3] * 256 + buf[4], buf[5] * 256 + buf[6], buf[7] * 256 + buf[8]>>

RECURSIVE NormSub(_, _)
\* a subnormal f32 fraction shifted up to its leading one: <<fraction, exponent>>
NormSub(frac, e) ==
    IF frac >= 8388608 THEN <<frac - 8388608, e>> ELSE NormSub(frac * 2, e - 1)

\* the 23 fraction bits of an f32 as the top bits of an f64 fraction
Frac23(neg, e, frac) ==
    <<neg, e, frac \div 524288, (frac \div 8) % 65536, (frac % 8) * 8192, 0>>

\* be_f32(buf) as f64: transmute of be_u32, then the exact promotion.
be_f32(buf) ==
    LET neg == buf[1] \div 128
        e == (buf[1] % 128) * 2 + buf[2] \div 128
        frac == (buf[2] % 128) * 65536 + buf[3] * 256 + buf[4]
    IN IF e = 255 THEN Frac23(neg, 2047, frac)
       ELSE IF e = 0 /\ frac = 0 THEN <<neg, 0, 0, 0, 0, 0>>
       ELSE IF e = 0 THEN LET n == NormSub(frac, 897) IN Frac23(neg, n[2], n[1])
       ELSE Frac23(neg, e + 896, frac)

RECURSIVE Bits(_, _)
\* the w low bits of n, most significant first
Bits(n, w) == IF w = 0 THEN <<>> ELSE Bits(n \div 2, w - 1) \o <<n % 2>>

RECURSIVE BitsVal(_)
BitsVal(bs) ==
    IF Len(bs) = 0 THEN 0 ELSE 2 * BitsVal(SubSeq(bs, 1, Len(bs) - 1)) + bs[Len(bs)]

FracBits(f) == Bits(f[3], 4) \o Bits(f[4], 16) \o Bits(f[5], 16) \o Bits(f[6], 16)

Zeros(n) == [i \in 1..n |-> 0]

\* The binary digits of |f| after the point, first 16 of them, as a number:
\* floor(fract(|f|) * 65536).  Digits beyond the 16th are dropped.
Fract16(f) ==
    LET e == f[2] - 1023
        digits == IF f[2] = 0 THEN Zeros(16)
                  ELSE IF e >= 52 THEN Zeros(16)
                  ELSE IF e >= 0 THEN SubSeq(FracBits(f), e + 1, 52) \o Zeros(16)
                  ELSE Zeros(Min(-e - 1, 16)) \o <<1>> \o FracBits(f)
    IN BitsVal(SubSeq(digits, 1, 16))

\* floor(x * 10e9) for x = n / 65536, as <<seconds, nanoseconds>>:
\* n * 5^10 / 2^6, split so that every product fits 31 bits.
Times10e9(n) ==
    LET b == n % 64
        a == n \div 64
        c == a \div 512
        d == a % 512
        e == d \div 128
        g == d % 128
        x == g * 9765625 + (b * 9765625) \div 64
        r == ((e * 125) % 100) * 10000000 + x
    IN <<5 * c + (e * 125) \div 100 + r \div 1000000000, r % 1000000000>>

RECURSIVE Wrap32(_)
\* <<s, ns>> modulo 2^32 nanoseconds
Wrap32(t) ==
    IF t[1] > 4 \/ (t[1] = 4 /\ t[2] >= 294967296)
    THEN Wrap32(IF t[2] >= 294967296 THEN <<t[1] - 4, t[2] - 294967296>>
                ELSE <<t[1] - 5, t[2] + 705032704>>)
    ELSE t

\* 2^32 - t for 0 < t < 2^32
Neg32(t) ==
    IF t[2] <= 294967296 THEN <<4 - t[1], 294967296 - t[2]>>
    ELSE <<3 - t[1], 1294967296 - t[2]>>

\* `(secs.fract() * 10e9) as u32`, as <<seconds, nanoseconds>> of the u32.
\* Out of range (negative, or above u32::MAX) the cast saturates in builds
\* where it is defined and wraps where it is not.
FractNanos(f) ==
    LET t == Times10e9(Fract16(f))
        over == t[1] > 4 \/ (t[1] = 4 /\ t[2] > 294967295)
    IN IF f[2] = 2047 \/ t = <<0, 0>> THEN <<0, 0>>
       ELSE IF f[1] = 1
            THEN IF castMode = "saturate" THEN <<0, 0>>
                 ELSE LET w == Wrap32(t) IN IF w = <<0, 0>> THEN w ELSE Neg32(w)
       ELSE IF over
            THEN IF castMode = "saturate" THEN <<4, 294967295>> ELSE Wrap32(t)
       ELSE t

\* `secs.trunc() as u64`: a number of seconds below Huge, Huge for a larger
\* count that still fits the clock, or -1 for one the clock cannot hold.
TruncAsU64(f) ==
    LET e == f[2] - 1023
    IN IF f[2] = 2047
       THEN IF castMode = "saturate" /\ (f[1] = 1 \/ FracBits(f) # Zeros(52)) THEN 0 ELSE -1
       ELSE IF e < 0 THEN 0
       ELSE IF f[1] = 1 THEN (IF castMode = "saturate" THEN 0 ELSE -1)
       ELSE IF e >= 63 THEN -1
       ELSE IF e >= 30 THEN Huge
       ELSE Pow2(e) + BitsVal(SubSeq(FracBits(f), 1, e))

(***************************************************************************)
(* Text decoding (std): String::from_utf8 and String::from_utf16.  A       *)
(* malformed sequence yields a -1 in the output.                           *)
(***************************************************************************)
Cont(b) == b >= 128 /\ b < 192

RECURSIVE Utf8(_)
Utf8(b) ==
    IF Len(b) = 0 THEN <<>>
    ELSE IF b[1] < 128 THEN <<b[1]>> \o Utf8(Tail(b))
    ELSE IF b[1] >= 194 /\ b[1] < 224 /\ Len(b) >= 2 /\ Cont(b[2])
         THEN <<(b[1] - 192) * 64 + (b[2] - 128)>> \o Utf8(SubSeq(b, 3, Len(b)))
    ELSE IF b[1] >= 224 /\ b[1] < 240 /\ Len(b) >= 3 /\ Cont(b[2]) /\ Cont(b[3])
            /\ (b[1] = 224 => b[2] >= 160) /\ (b[1] = 237 => b[2] < 160)
         THEN <<(b[1] - 224) * 4096 + (b[2] - 128) * 64 + (b[3] - 128)>>
              \o Utf8(SubSeq(b, 4, Len(b)))
    ELSE IF b[1] >= 240 /\ b[1] < 245 /\ Len(b) >= 4
            /\ Cont(b[2]) /\ Cont(b[3]) /\ Cont(b[4])
            /\ (b[1] = 240 => b[2] >= 144) /\ (b[1] = 244 => b[2] < 144)
         THEN <<(b[1] - 240) * 262144 + (b[2] - 128) * 4096 + (b[3] - 128) * 64
                + (b[4] - 128)>> \o Utf8(SubSeq(b, 5, Len(b)))
    ELSE <<-1>>

RECURSIVE Utf16(_)
Utf16(u) ==
    IF Len(u) = 0 THEN <<>>
    ELSE IF u[1] < 55296 \/ u[1] >= 57344 THEN <<u[1]>> \o Utf16(Tail(u))
    ELSE IF u[1] < 56320 /\ Len(u) >= 2 /\ u[2] >= 56320 /\ u[2] < 57344
         THEN <<65536 + (u[1] - 55296) * 1024 + (u[2] - 56320)>>
              \o Utf16(SubSeq(u, 3, Len(u)))
    ELSE <<-1>>

Malformed(chars) == \E i \in 1..Len(chars) : chars[i] < 0


(***************************************************************************)
(* binary.rs: the per-type decoders.  Each is entered with the cursor p.   *)
(***************************************************************************)
boolean(p) ==
    LET decode(buf) ==
            IF buf.k # "Ok" THEN buf
            ELSE IF buf.a[1] % 16 = 8 THEN Ok(PBoolean(FALSE), buf.p)
            ELSE IF buf.a[1] % 16 = 9 THEN Ok(PBoolean(TRUE), buf.p)
            ELSE Err("InvalidBoolean", <<>>, buf.p)
    IN decode(ReadExact(p, 1))

integer(p) ==
    LET cast(r) == IF r.k # "Ok" THEN r ELSE Ok(PInteger(AsI64(r.a)), r.p)
    IN cast(read_int(p + 1))

real(p) ==
    LET promote(r) ==
            IF r.k # "Ok" THEN r
            ELSE IF Len(r.a) = 4 THEN Ok(PReal(be_f32(r.a)), r.p)
            ELSE IF Len(r.a) = 8 THEN Ok(PReal(be_f64(r.a)), r.p)
            ELSE Err("InvalidIntegerSize", <<>>, r.p)
    IN promote(read_sized(p))

\* Seconds from UNIX_EPOCH to 2001-01-01T00:00:00Z.
RefDate == 978307200

\* date: Duration::new(secs.trunc() as u64, (secs.fract() * 10e9) as u32)
\* added to the reference date.  A DateTime is <<seconds, nanoseconds>>
\* since UNIX_EPOCH.
date(p) ==
    LET instant(buf, whole, nanos) ==
            IF whole < 0
            THEN Panic("overflow when adding duration to instant", buf.p)
            ELSE Ok(PDateTime(<<RefDate + whole + nanos[1], nanos[2]>>), buf.p)
        duration(buf, secs) == instant(buf, TruncAsU64(secs), FractNanos(secs))
        decode(buf) ==
            IF buf.k # "Ok" THEN buf ELSE duration(buf, be_f64(SubSeq(buf.a, 2, 9)))
    IN decode(ReadExact(p, 9))

data(p) ==
    LET take(buf) == Ok(PData(buf.a), buf.p)
        decode(len) ==
            IF len.k # "Ok" THEN len
            ELSE IF ToUsize(len.a) >= Huge THEN Panic("capacity overflow", len.p)
            ELSE take(TakeToEnd(len.p, ToUsize(len.a)))
    IN decode(read_int(p))

string(p) ==
    LET convert(buf, chars) ==
            IF Malformed(chars) THEN Err("Utf8Error", <<>>, buf.p)
            ELSE Ok(PString(chars), buf.p)
        take(buf) == convert(buf, Utf8(buf.a))
        decode(len) ==
            IF len.k # "Ok" THEN len
            ELSE IF ToUsize(len.a) >= Huge THEN Panic("capacity overflow", len.p)
            ELSE take(TakeToEnd(len.p, ToUsize(len.a)))
    IN decode(read_int(p))

utf16_string(p) ==
    LET convert(buf, chars) ==
            IF Malformed(chars) THEN Err("Utf16Error", <<>>, buf.p)
            ELSE Ok(PString(chars), buf.p)
        points(buf, cs) == convert(buf, Utf16([i \in 1..Len(cs) |-> be_u16(cs[i])[4]]))
        take(buf) ==
            IF Len(buf.a) % 2 # 0 THEN Panic("index out of bounds", buf.p)
            ELSE points(buf, Chunks(buf.a, 2))
        decode(len) ==
            IF len.k # "Ok" THEN len
            ELSE IF ToUsize(len.a) >= Huge \div 2 THEN Panic("capacity overflow", len.p)
            ELSE take(TakeToEnd(len.p, ToUsize(len.a) * 2))
    IN decode(read_int(p))

\* array, up to its loop: the count and the references.
array_refs(p) ==
    LET values(len) ==
            IF len.k # "Ok" THEN len ELSE sized_ints(len.p, refSize, ToUsize(len.a))
    IN values(read_int(p))

\* dict, up to its loop: the count, the key references, the value references;
\* Ok carries the zip of the two lists in the order the loop resolves them.
dict_refs(p) ==
    LET zip(keys, values, n) ==
            [values EXCEPT !.a =
                [i \in 1..(2 * n) |->
                    IF i % 2 = 1 THEN keys.a[(i + 1) \div 2] ELSE values.a[i \div 2]]]
        pairs(keys, values) ==
            IF values.k # "Ok" THEN values
            ELSE zip(keys, values, Min(Len(keys.a), Len(values.a)))
        vals(len, keys) ==
            IF keys.k # "Ok" THEN keys
            ELSE pairs(keys, sized_ints(keys.p, refSize, ToUsize(len.a)))
        decode(len) ==
            IF len.k # "Ok" THEN len
            ELSE vals(len, sized_ints(len.p, refSize, ToUsize(len.a)))
    IN decode(read_int(p))

\* An object() that reports every tag it has no decoder for as tag 0.
leaf_untagged(tag, p) ==
    CASE tag = 0 -> boolean(p)
      [] tag = 1 -> integer(p)
      [] tag = 2 -> real(p)
      [] tag = 3 -> date(p)
      [] tag = 4 -> data(p)
      [] tag = 5 -> string(p)
      [] tag = 6 -> utf16_string(p)
      [] OTHER -> Err("ObjectNotSupported", <<0>>, p)

\* object: the dispatch on the high nibble of the byte at the object's offset,
\* for the tags that do not recurse.
leaf(tag, p) ==
    CASE tag = 0 -> boolean(p)
      [] tag = 1 -> integer(p)
      [] tag = 2 -> real(p)
      [] tag = 3 -> date(p)
      [] tag = 4 -> data(p)
      [] tag = 5 -> string(p)
      [] tag = 6 -> utf16_string(p)
      [] OTHER -> Err("ObjectNotSupported", <<tag>>, p)


(***************************************************************************)
(* Text conversions used by the markup reader (std, chrono,                *)
(* rustc_serialize).  Text is a sequence of character codes.               *)
(***************************************************************************)
IsDigit(c) == c >= 48 /\ c <= 57

AllDigits(cs) == \A i \in 1..Len(cs) : IsDigit(cs[i])

RECURSIVE DigitsVal(_)
\* a short digit string as a number
DigitsVal(cs) ==
    IF Len(cs) = 0 THEN 0
    ELSE 10 * DigitsVal(SubSeq(cs, 1, Len(cs) - 1)) + (cs[Len(cs)] - 48)

RECURSIVE Accumulate(_, _)
\* digits folded into u64 limbs, most significant digit first; the fifth
\* component is 1 once the magnitude has left 64 bits
Accumulate(cs, u) ==
    IF Len(cs) = 0 THEN u
    ELSE LET t4 == u[4] * 10 + (cs[1] - 48)
             t3 == u[3] * 10 + t4 \div 65536
             t2 == u[2] * 10 + t3 \div 65536
             t1 == u[1] * 10 + t2 \div 65536
         IN Accumulate(Tail(cs),
                <<t1 % 65536, t2 % 65536, t3 % 65536, t4 % 65536,
                  IF t1 >= 65536 THEN 1 ELSE u[5]>>)

\* i64::from_str_radix(s, 10): <<>> for a ParseIntError, else the i64 as
\* <<negative?, magnitude limbs>>.
ParseI64(cs) ==
    LET signed == Len(cs) > 0 /\ cs[1] \in {43, 45}
        neg == Len(cs) > 0 /\ cs[1] = 45
        digits == IF signed THEN Tail(cs) ELSE cs
        m == Accumulate(digits, <<0, 0, 0, 0, 0>>)
        mag == SubSeq(m, 1, 4)
    IN IF Len(digits) = 0 \/ ~AllDigits(digits) THEN <<>>
       ELSE IF m[5] = 1 THEN <<>>
       ELSE IF ~neg /\ m[1] >= 32768 THEN <<>>
       ELSE IF neg /\ (m[1] > 32768 \/ (m[1] = 32768 /\ SubSeq(m, 2, 4) # <<0, 0, 0>>))
            THEN <<>>
       ELSE <<IF neg /\ mag # <<0, 0, 0, 0>> THEN 1 ELSE 0>> \o mag

IndexOf(cs, c) ==
    IF \E i \in 1..Len(cs) : cs[i] = c
    THEN CHOOSE i \in 1..Len(cs) : cs[i] = c /\ \A j \in 1..(i - 1) : cs[j] # c
    ELSE 0

RECURSIVE Pow10(_)
Pow10(n) == IF n = 0 THEN 1 ELSE 10 * Pow10(n - 1)

RECURSIVE Divide(_, _, _)
\* n binary digits of num / den (num < den < 2^26), four at a time, then the
\* remainder
Divide(num, den, n) ==
    LET w == Min(n, 4)
        digits(q, rest) == <<Bits(q, w) \o rest[1], rest[2]>>
    IN IF n = 0 THEN <<<<>>, num>>
       ELSE digits((num * Pow2(w)) \div den, Divide((num * Pow2(w)) % den, den, n - w))

RECURSIVE Increment(_)
\* a bit string plus one; all ones become all zeros
Increment(bs) ==
    IF Len(bs) = 0 THEN <<>>
    ELSE IF bs[Len(bs)] = 0 THEN SubSeq(bs, 1, Len(bs) - 1) \o <<1>>
    ELSE Increment(SubSeq(bs, 1, Len(bs) - 1)) \o <<0>>

RECURSIVE Floor2(_, _, _)
\* the e with 2^e <= num / den < 2^(e+1), searched from e upwards or downwards
Floor2(num, den, e) ==
    IF num >= 2 * den THEN Floor2(num, 2 * den, e + 1)
    ELSE IF num < den THEN Floor2(2 * num, den, e - 1)
    ELSE <<e, num, den>>

\* str::parse::<f64> for plain decimals [+-]ddd[.ddd] of at most four integer
\* and three fraction digits, rounded to nearest even: <<>> for a
\* ParseFloatError, else the f64 fields.  Longer or exponent forms are
\* outside the model and are not generated.
ParseF64(cs) ==
    LET signed == Len(cs) > 0 /\ cs[1] \in {43, 45}
        neg == IF Len(cs) > 0 /\ cs[1] = 45 THEN 1 ELSE 0
        body == IF signed THEN Tail(cs) ELSE cs
        dot == IndexOf(body, 46)
        ip == IF dot = 0 THEN body ELSE SubSeq(body, 1, dot - 1)
        fp == IF dot = 0 THEN <<>> ELSE SubSeq(body, dot + 1, Len(body))
        n == DigitsVal(ip \o fp)
        norm == Floor2(n, Pow10(Len(fp)), 0)
        q == Divide(norm[2] - norm[3], norm[3], 52)
        up == 2 * q[2] > norm[3] \/ (2 * q[2] = norm[3] /\ q[1][52] = 1)
        frac == IF up THEN Increment(q[1]) ELSE q[1]
        e == IF up /\ frac = Zeros(52) THEN norm[1] + 1 ELSE norm[1]
    IN IF Len(ip) + Len(fp) = 0 \/ ~AllDigits(ip) \/ ~AllDigits(fp) THEN <<>>
       ELSE IF Len(ip) > 4 \/ Len(fp) > 3 THEN <<>>
       ELSE IF n = 0 THEN <<neg, 0, 0, 0, 0, 0>>
       ELSE <<neg, e + 1023, BitsVal(SubSeq(frac, 1, 4)), BitsVal(SubSeq(frac, 5, 20)),
              BitsVal(SubSeq(frac, 21, 36)), BitsVal(SubSeq(frac, 37, 52))>>

\* days from 1970-01-01 to the civil date y-m-d
DaysFromCivil(y, m, d) ==
    LET yy == IF m <= 2 THEN y - 1 ELSE y
        era == yy \div 400
        yoe == yy - era * 400
        doy == (153 * (IF m > 2 THEN m - 3 ELSE m + 9) + 2) \div 5 + d - 1
        doe == yoe * 365 + yoe \div 4 - yoe \div 100 + doy
    IN era * 146097 + doe - 719468

DaysInMonth(y, m) ==
    IF m = 2 THEN (IF y % 4 = 0 /\ (y % 100 # 0 \/ y % 400 = 0) THEN 29 ELSE 28)
    ELSE IF m \in {4, 6, 9, 11} THEN 30 ELSE 31

\* DateTime::parse_from_rfc3339(s).timestamp(), for years 1902..2037:
\* <<>> for a ParseError, else <<seconds since 1970>>.  The fraction of a
\* second is parsed and is not part of timestamp().
ParseRfc3339(cs) ==
    LET num(a, b) == DigitsVal(SubSeq(cs, a, b))
        y == num(1, 4)
        mo == num(6, 7)
        d == num(9, 10)
        h == num(12, 13)
        mi == num(15, 16)
        sec == num(18, 19)
        dotted == Len(cs) >= 21 /\ cs[20] = 46
        fracEnd == IF dotted
                   THEN CHOOSE j \in 20..Len(cs) :
                          /\ \A x \in 21..j : IsDigit(cs[x])
                          /\ (j = Len(cs) \/ ~IsDigit(cs[j + 1]))
                   ELSE 19
        zone == SubSeq(cs, fracEnd + 1, Len(cs))
        zoneOk == \/ zone \in {<<90>>, <<122>>}
                  \/ /\ Len(zone) = 6 /\ zone[1] \in {43, 45} /\ zone[4] = 58
                     /\ AllDigits(SubSeq(zone, 2, 3)) /\ AllDigits(SubSeq(zone, 5, 6))
                     /\ DigitsVal(SubSeq(zone, 5, 6)) < 60
        off == IF Len(zone) = 6
               THEN (IF zone[1] = 45 THEN -1 ELSE 1)
                    * (DigitsVal(SubSeq(zone, 2, 3)) * 3600 + DigitsVal(SubSeq(zone, 5, 6)) * 60)
               ELSE 0
    IN IF Len(cs) < 20 THEN <<>>
       ELSE IF ~(AllDigits(SubSeq(cs, 1, 4)) /\ cs[5] = 45 /\ AllDigits(SubSeq(cs, 6, 7))
                 /\ cs[8] = 45 /\ AllDigits(SubSeq(cs, 9, 10)) /\ cs[11] \in {84, 116}
                 /\ AllDigits(SubSeq(cs, 12, 13)) /\ cs[14] = 58
                 /\ AllDigits(SubSeq(cs, 15, 16)) /\ cs[17] = 58
                 /\ AllDigits(SubSeq(cs, 18, 19))) THEN <<>>
       ELSE IF dotted /\ fracEnd = 20 THEN <<>>
       ELSE IF ~zoneOk THEN <<>>
       ELSE IF y < 1902 \/ y > 2037 \/ mo < 1 \/ mo > 12 \/ d < 1 \/ d > DaysInMonth(y, mo)
               \/ h > 23 \/ mi > 59 \/ sec > 60 THEN <<>>
       ELSE <<DaysFromCivil(y, mo, d) * 86400 + h * 3600 + mi * 60 + sec - off>>

\* char::is_whitespace for the ASCII range
IsSpace(c) == c \in {9, 10, 11, 12, 13, 32}

\* split_whitespace().fold(push_str): the text without its whitespace
Stripped(cs) == SelectSeq(cs, LAMBDA c : ~IsSpace(c))

\* the 6-bit value of a base64 character (standard or URL-safe), -1 if none
Sextet(c) ==
    IF c >= 65 /\ c <= 90 THEN c - 65
    ELSE IF c >= 97 /\ c <= 122 THEN c - 71
    ELSE IF c >= 48 /\ c <= 57 THEN c + 4
    ELSE IF c \in {43, 45} THEN 62
    ELSE IF c \in {47, 95} THEN 63
    ELSE -1

RECURSIVE Base64Groups(_)
Base64Groups(v) ==
    IF Len(v) = 0 THEN <<>>
    ELSE IF Len(v) = 2 THEN <<v[1] * 4 + v[2] \div 16>>
    ELSE IF Len(v) = 3 THEN <<v[1] * 4 + v[2] \div 16, (v[2] % 16) * 16 + v[3] \div 4>>
    ELSE <<v[1] * 4 + v[2] \div 16, (v[2] % 16) * 16 + v[3] \div 4, (v[3] % 4) * 64 + v[4]>>
         \o Base64Groups(SubSeq(v, 5, Len(v)))

RECURSIVE DropPadding(_)
DropPadding(cs) ==
    IF Len(cs) > 0 /\ cs[Len(cs)] = 61 THEN DropPadding(SubSeq(cs, 1, Len(cs) - 1)) ELSE cs

\* from_base64: <<-1>> for a FromBase64Error, else the bytes.
FromBase64(cs) ==
    LET body == DropPadding(cs)
        v == [i \in 1..Len(body) |-> Sextet(body[i])]
    IN IF (\E i \in 1..Len(v) : v[i] < 0) \/ Len(v) % 4 = 1 THEN <<-1>>
       ELSE Base64Groups(v)


(***************************************************************************)
(* xml.rs: the markup reader over the event stream.  A position i is the   *)
(* index of the next event the iterator will yield; Ok carries in p the    *)
(* position after the last event consumed.                                 *)
(***************************************************************************)
\* EventReader::new_with_config(input, config).into_iter(): the tokenizer reads
\* the source from the cursor.  Read from anywhere but the start, the bytes
\* are not a document and the tokenizer reports an error.
events == IF pos = 0 THEN tokens ELSE <<Ev("Error", "", <<>>)>>

IsEnd(e, name) == e.ty = "EndElement" /\ e.name = name

RECURSIVE xml_start(_, _)
\* xml_event with the predicate of xml_start: character runs are skipped.
xml_start(i, local_name) ==
    LET event(e) ==
            IF e.ty = "Error" THEN Err("XmlError", <<>>, i + 1)
            ELSE IF e.ty = "StartElement"
                 THEN IF e.name = local_name THEN Ok(NoValue, i + 1) ELSE ErrEv(e, i + 1)
            ELSE IF e.ty = "Characters" THEN xml_start(i + 1, local_name)
            ELSE ErrEv(e, i + 1)
    IN IF i > Len(events) THEN Err("UnexpectedXmlEof", <<>>, i) ELSE event(events[i])

RECURSIVE xml_end(_, _, _)
\* An xml_end that takes the end of the stream for the end tag.
xml_end_lenient(i, local_name, text) ==
    LET event(e) ==
            IF e.ty = "Error" THEN Err("XmlError", <<>>, i + 1)
            ELSE IF e.ty = "EndElement"
                 THEN IF e.name = local_name
                      THEN Res("Ok", "", text, NoEvent, NoValue, i + 1)
                      ELSE ErrEv(e, i + 1)
            ELSE IF e.ty = "Characters" THEN xml_end(i + 1, local_name, e.text)
            ELSE ErrEv(e, i + 1)
    IN IF i > Len(events) THEN Res("Ok", "", text, NoEvent, NoValue, i)
       ELSE event(events[i])

\* xml_event with the predicate of xml_end: every character run overwrites
\* `string` (here text); Ok carries the text in a.
xml_end(i, local_name, text) ==
    LET event(e) ==
            IF e.ty = "Error" THEN Err("XmlError", <<>>, i + 1)
            ELSE IF e.ty = "EndElement"
                 THEN IF e.name = local_name
                      THEN Res("Ok", "", text, NoEvent, NoValue, i + 1)
                      ELSE ErrEv(e, i + 1)
            ELSE IF e.ty = "Characters" THEN xml_end(i + 1, local_name, e.text)
            ELSE ErrEv(e, i + 1)
    IN IF i > Len(events) THEN Err("UnexpectedXmlEof", <<>>, i) ELSE event(events[i])

xml_content(i, local_name) ==
    LET content(s) == IF s.k # "Ok" THEN s ELSE xml_end(s.p, local_name, <<>>)
    IN content(xml_start(i, local_name))

RECURSIVE xml_boolean(_)
xml_boolean(i) ==
    LET closed(e, c) == IF c.k # "Ok" THEN c ELSE Ok(PBoolean(e.name = "true"), c.p)
        event(e) ==
            IF e.ty = "Error" THEN Err("XmlError", <<>>, i + 1)
            ELSE IF e.ty = "StartElement" /\ e.name \in {"true", "false"}
                 THEN closed(e, xml_end(i + 1, e.name, <<>>))
            ELSE IF e.ty = "Characters" THEN xml_boolean(i + 1)
            ELSE ErrEv(e, i + 1)
    IN IF i > Len(events) THEN Err("UnexpectedXmlEof", <<>>, i) ELSE event(events[i])

xml_integer(i) ==
    LET parsed(c, n) ==
            IF n = <<>> THEN Err("IntError", <<>>, c.p) ELSE Ok(PInteger(n), c.p)
        convert(c) == IF c.k # "Ok" THEN c ELSE parsed(c, ParseI64(c.a))
    IN convert(xml_content(i, "integer"))

xml_real(i) ==
    LET parsed(c, f) ==
            IF f = <<>> THEN Err("FloatError", <<>>, c.p) ELSE Ok(PReal(f), c.p)
        convert(c) == IF c.k # "Ok" THEN c ELSE parsed(c, ParseF64(c.a))
    IN convert(xml_content(i, "real"))

\* xml_date: `timestamp() as u64` wraps a negative timestamp to a count of
\* seconds the clock cannot hold, and the addition panics.
xml_date(i) ==
    LET parsed(c, t) ==
            IF t = <<>> THEN Err("DateError", <<>>, c.p)
            ELSE IF t[1] < 0 THEN Panic("overflow when adding duration to instant", c.p)
            ELSE Ok(PDateTime(<<t[1], 0>>), c.p)
        convert(c) == IF c.k # "Ok" THEN c ELSE parsed(c, ParseRfc3339(c.a))
    IN convert(xml_content(i, "date"))

xml_data(i) ==
    LET decoded(c, bytes) ==
            IF Malformed(bytes) THEN Err("Base64Error", <<>>, c.p) ELSE Ok(PData(bytes), c.p)
        convert(c) == IF c.k # "Ok" THEN c ELSE decoded(c, FromBase64(Stripped(c.a)))
    IN convert(xml_content(i, "data"))

xml_string(i) ==
    LET convert(c) == IF c.k # "Ok" THEN c ELSE Ok(PString(c.a), c.p)
    IN convert(xml_content(i, "string"))

RECURSIVE xml_object(_)
RECURSIVE xml_array_loop(_, _)
RECURSIVE xml_dict_loop(_, _)

\* An xml_array loop that every UnexpectedXmlEvent of a child ends.
xml_array_loop_any_event(i, array) ==
    LET child(o) ==
            IF o.k = "Ok" THEN xml_array_loop(o.p, Append(array, o.v))
            ELSE IF o.k = "Err" /\ o.e = "UnexpectedXmlEvent"
                 THEN Ok(PArray(array), o.p)
            ELSE o
    IN child(xml_object(i))

\* xml_array after its open tag: the loop.  A child that fails with
\* UnexpectedXmlEvent carrying the end tag `array` ends the loop.
xml_array_loop(i, array) ==
    LET child(o) ==
            IF o.k = "Ok" THEN xml_array_loop(o.p, Append(array, o.v))
            ELSE IF o.k = "Err" /\ o.e = "UnexpectedXmlEvent"
                 THEN IF IsEnd(o.ev, "array") THEN Ok(PArray(array), o.p) ELSE o
            ELSE o
    IN child(xml_object(i))

xml_array(i) ==
    LET loop(s) == IF s.k # "Ok" THEN s ELSE xml_array_loop(s.p, <<>>)
    IN loop(xml_start(i, "array"))

\* An xml_dict loop that returns every failure of the key.
xml_dict_loop_propagates(i, dict) ==
    LET insert(key, value) ==
            IF value.k # "Ok" THEN value
            ELSE xml_dict_loop(value.p, DictInsert(dict, key.a, value.v))
        pair(key) == IF key.k = "Ok" THEN insert(key, xml_object(key.p)) ELSE key
    IN pair(xml_content(i, "key"))

\* xml_dict after its open tag: the loop.
xml_dict_loop(i, dict) ==
    LET insert(key, value) ==
            IF value.k # "Ok" THEN value
            ELSE xml_dict_loop(value.p, DictInsert(dict, key.a, value.v))
        pair(key) ==
            IF key.k = "Ok" THEN insert(key, xml_object(key.p))
            ELSE IF key.k = "Err" /\ key.e = "UnexpectedXmlEvent"
                 THEN IF IsEnd(key.ev, "dict") THEN Ok(PDict(dict), key.p) ELSE key
            ELSE key
    IN pair(xml_content(i, "key"))

xml_dict(i) ==
    LET loop(s) == IF s.k # "Ok" THEN s ELSE xml_dict_loop(s.p, <<>>)
    IN loop(xml_start(i, "dict"))

\* xml_object: dispatch on the peeked event; otherwise consume one event.
xml_object(i) ==
    LET dispatch(name) ==
            CASE name \in {"true", "false"} -> xml_boolean(i)
              [] name = "integer" -> xml_integer(i)
              [] name = "real" -> xml_real(i)
              [] name = "date" -> xml_date(i)
              [] name = "data" -> xml_data(i)
              [] name = "string" -> xml_string(i)
              [] name = "array" -> xml_array(i)
              [] name = "dict" -> xml_dict(i)
              [] OTHER -> Res("Err", "XmlObjectNotSupported", <<>>, events[i], NoValue, i)
    IN IF i <= Len(events) /\ events[i].ty = "StartElement" THEN dispatch(events[i].name)
       ELSE IF i > Len(events) THEN Err("UnexpectedXmlEof", <<>>, i)
       ELSE IF events[i].ty = "Characters" THEN xml_object(i + 1)
       ELSE IF events[i].ty = "Error" THEN Err("XmlError", <<>>, i + 1)
       ELSE ErrEv(events[i], i + 1)

\* A from_xml_reader that does not wait for the root's end tag.
from_xml_reader_unclosed ==
    LET opened(root) == IF root.k # "Ok" THEN root ELSE xml_object(root.p)
        started(doc) == IF doc.k # "Ok" THEN doc ELSE opened(xml_start(doc.p, "plist"))
    IN started(IF Len(events) = 0 THEN Err("UnexpectedXmlEof", <<>>, 1)
               ELSE IF events[1].ty = "Error" THEN Err("XmlError", <<>>, 2)
               ELSE IF events[1].ty = "StartDocument" THEN Ok(NoValue, 2)
               ELSE ErrEv(events[1], 2))

\* from_xml_reader over the events the tokenizer yields from the start of
\* the source.
from_xml_reader ==
    LET closed(object, close) == IF close.k # "Ok" THEN close ELSE Ok(object.v, close.p)
        value(object) ==
            IF object.k # "Ok" THEN object ELSE closed(object, xml_end(object.p, "plist", <<>>))
        opened(root) == IF root.k # "Ok" THEN root ELSE value(xml_object(root.p))
        started(doc) == IF doc.k # "Ok" THEN doc ELSE opened(xml_start(doc.p, "plist"))
    IN started(IF Len(events) = 0 THEN Err("UnexpectedXmlEof", <<>>, 1)
               ELSE IF events[1].ty = "Error" THEN Err("XmlError", <<>>, 2)
               ELSE IF events[1].ty = "StartDocument" THEN Ok(NoValue, 2)
               ELSE ErrEv(events[1], 2))

(***************************************************************************)
(* The decode call as a state machine.  object() recurses through array()  *)
(* and dict(); the frames of the calls in progress are kept in `stack`.    *)
(***************************************************************************)
\* Frames the machine's stack can hold before it is exhausted.
MaxDepth == 4

Magic == <<98, 112, 108, 105, 115, 116>>

Version00 == <<48, 48>>

Conf ==
    [pc |-> pc, pos |-> pos, stack |-> stack, cur |-> cur, result |-> result,
     taken |-> taken, entered |-> entered, offsets |-> offsets, refSize |-> refSize]

Apply(c) ==
    /\ pc' = c.pc
    /\ pos' = c.pos
    /\ stack' = c.stack
    /\ cur' = c.cur
    /\ result' = c.result
    /\ taken' = c.taken
    /\ entered' = c.entered
    /\ offsets' = c.offsets
    /\ refSize' = c.refSize
    /\ steps' = steps + 1
    /\ UNCHANGED <<src, tokens, overflowChecks, castMode, entry, shape, aux>>

Frame(kind, refs) == [kind |-> kind, refs |-> refs, i |-> 1, key |-> <<>>, acc |-> <<>>]

NotEntered == [obj |-> -1, tag |-> -1, at |-> -1, role |-> "none"]

\* from_binary_reader returns r (try! hands an Err up through every frame, a
\* panic unwinds them); from_reader then matches on it.
Returned(c, r) ==
    [c EXCEPT !.pc = IF entry = "from_reader" THEN "match" ELSE "done",
              !.result = Outcome(r), !.pos = r.p, !.stack = <<>>]

\* An array()/dict() that resolves none of its references.
Advance_unresolved(c) ==
    LET empty(top) ==
            [c EXCEPT !.pc = "return",
                      !.stack = SubSeq(c.stack, 1, Len(c.stack) - 1),
                      !.result = Ok(IF top.kind = "array" THEN PArray(<<>>)
                                    ELSE PDict(<<>>), 0)]
    IN empty(c.stack[Len(c.stack)])

\* The head of the loop of the innermost array()/dict(): the next reference,
\* or the finished container.
Advance(c) ==
    LET loop(top) ==
            IF top.i > Len(top.refs)
            THEN [c EXCEPT !.pc = "return",
                           !.stack = SubSeq(c.stack, 1, Len(c.stack) - 1),
                           !.result = Ok(IF top.kind = "array" THEN PArray(top.acc)
                                         ELSE PDict(top.acc), 0)]
            ELSE [c EXCEPT !.pc = "object", !.cur = top.refs[top.i]]
    IN loop(c.stack[Len(c.stack)])

\* from_binary_reader up to the call of object(): magic, version, trailer.
header ==
    LET magic == ReadExact(0, 6)
        ver == ReadExact(6, 2)
    IN IF magic.k # "Ok" THEN magic
       ELSE IF magic.a # Magic THEN Err("InvalidMagicBytes", <<>>, magic.p)
       ELSE IF ver.k # "Ok" THEN ver
       ELSE IF Malformed(Utf8(ver.a)) THEN Err("VersionNotSupported", <<0>>, ver.p)
       ELSE IF ver.a # Version00 THEN Err("VersionNotSupported", <<1>> \o ver.a, ver.p)
       ELSE Ok(NoValue, ver.p)

\* What from_binary_reader makes of trailer()'s result: any Err becomes
\* InvalidTrailer.
trailer_result(t) ==
    IF t.k = "Err" THEN Err("InvalidTrailer", <<>>, t.p) ELSE t

from_binary_reader_begin(c) ==
    LET root(t) ==
            IF t.k # "Ok" THEN Returned(c, t)
            ELSE [c EXCEPT !.pc = "object", !.pos = t.p, !.cur = t.a[1],
                           !.refSize = t.a[2], !.offsets = SubSeq(t.a, 3, Len(t.a))]
        begin(h) == IF h.k # "Ok" THEN Returned(c, h) ELSE root(trailer_result(trailer))
    IN begin(header)

\* The role in which the pending object() call was made.
Role(c) ==
    IF c.stack = <<>> THEN "root"
    ELSE LET top == c.stack[Len(c.stack)]
         IN IF top.kind = "array" THEN "element"
            ELSE IF top.i % 2 = 1 THEN "key" ELSE "value"

\* An object() that does not seek back after reading the tag byte.
decoder_entry_unseeked(obj) == offsets[obj + 1] + 1

\* The cursor at which object() enters the per-type decoder: seek to the
\* offset, read the tag byte, seek to the offset again.
decoder_entry(obj) == offsets[obj + 1]

\* object(input, cur, ref_size, offsets), up to the next nested call of
\* object() or to its return.
object(c) ==
    LET enter(c1, tag, refs) ==
            IF refs.k # "Ok" THEN Returned(c1, refs)
            ELSE IF Len(c.stack) >= MaxDepth
                 THEN [c1 EXCEPT !.pc = "overflow", !.pos = refs.p]
            ELSE Advance([c1 EXCEPT
                     !.pos = refs.p,
                     !.stack = Append(c.stack,
                         Frame(IF tag = 10 THEN "array" ELSE "dict", refs.a))])
        finish(c1, value) ==
            IF value.k # "Ok" THEN Returned(c1, value)
            ELSE [c1 EXCEPT !.pc = "return", !.pos = value.p, !.result = Outcome(value)]
        dispatch(c1, tag, at) ==
            IF tag \in {10, 13}
            THEN enter(c1, tag, IF tag = 10 THEN array_refs(at) ELSE dict_refs(at))
            ELSE finish(c1, leaf(tag, at))
        decode(buf, at, tag) ==
            IF buf.k # "Ok" THEN Returned(c, buf)
            ELSE dispatch([c EXCEPT !.entered = [obj |-> c.cur, tag |-> tag, at |-> at,
                                                 role |-> Role(c)]], tag, at)
        tagged(buf, at) == decode(buf, at, IF buf.k = "Ok" THEN buf.a[1] \div 16 ELSE -1)
    IN IF c.cur >= Len(c.offsets) THEN Returned(c, Panic("index out of bounds", c.pos))
       ELSE tagged(ReadExact(c.offsets[c.cur + 1], 1), decoder_entry(c.cur))

\* A dict() that takes whatever its key reference decoded to as the key.
object_returns_any_key(c) ==
    LET n == Len(c.stack)
        resume(top, v) ==
            IF top.kind = "array"
            THEN Advance([c EXCEPT !.stack[n].acc = Append(top.acc, v),
                                   !.stack[n].i = top.i + 1])
            ELSE IF top.i % 2 = 1
                 THEN Advance([c EXCEPT !.stack[n].key = v.s, !.stack[n].i = top.i + 1])
            ELSE Advance([c EXCEPT !.stack[n].acc = DictInsert(top.acc, top.key, v),
                                   !.stack[n].i = top.i + 1])
    IN IF c.stack = <<>> THEN Returned(c, [c.result EXCEPT !.p = c.pos])
       ELSE resume(c.stack[n], c.result.v)

\* The caller of object() takes its Ok value: from_binary_reader returns it,
\* array() pushes it, dict() takes a key or inserts a pair.
object_returns(c) ==
    LET n == Len(c.stack)
        resume(top, v) ==
            IF top.kind = "array"
            THEN Advance([c EXCEPT !.stack[n].acc = Append(top.acc, v),
                                   !.stack[n].i = top.i + 1])
            ELSE IF top.i % 2 = 1
                 THEN IF v.t = "String"
                      THEN Advance([c EXCEPT !.stack[n].key = v.s, !.stack[n].i = top.i + 1])
                      ELSE Returned(c, Err("InvalidKeyObject", <<>>, c.pos))
            ELSE Advance([c EXCEPT !.stack[n].acc = DictInsert(top.acc, top.key, v),
                                   !.stack[n].i = top.i + 1])
    IN IF c.stack = <<>> THEN Returned(c, [c.result EXCEPT !.p = c.pos])
       ELSE resume(c.stack[n], c.result.v)

\* A from_reader that falls back to the markup reader on every error.
from_reader_match_any_error(c) ==
    IF c.result.k = "Err"
    THEN [c EXCEPT !.pc = "xml", !.pos = 0]
    ELSE [c EXCEPT !.pc = "done"]

\* from_reader's match on the binary reader's result.
from_reader_match(c) ==
    IF c.result.k = "Err" /\ c.result.e = "InvalidMagicBytes"
    THEN [c EXCEPT !.pc = "xml", !.pos = 0]
    ELSE [c EXCEPT !.pc = "done"]

BinBegin == pc = "start" /\ Apply(from_binary_reader_begin(Conf))

Object == pc = "object" /\ Apply(object(Conf))

Return == pc = "return" /\ Apply(object_returns(Conf))

FromReader == pc = "match" /\ Apply(from_reader_match(Conf))

Xml ==
    LET returned(r) ==
            Apply([Conf EXCEPT !.pc = "done", !.result = Outcome(r), !.taken = r.p - 1])
    IN pc = "xml" /\ returned(from_xml_reader)

(***************************************************************************)
(* Sources.  A binary source is laid out from a description: the 8-byte    *)
(* signature, the objects, the offset table and the 26-byte trailer that   *)
(* trailer() reads back.                                                   *)
(***************************************************************************)
Leaf(bytes) == [kind |-> "leaf", bytes |-> bytes, refs |-> <<>>]

\* an array object holding the references refs
Arr(refs) == [kind |-> "array", bytes |-> <<>>, refs |-> refs]

\* a dictionary object: the key references, then the value references
Dic(keys, vals) == [kind |-> "dict", bytes |-> <<>>, refs |-> keys \o vals]

RECURSIVE Concat(_)
Concat(ss) == IF Len(ss) = 0 THEN <<>> ELSE ss[1] \o Concat(Tail(ss))

\* v < 65536 as `size` big-endian bytes
BE(v, size) ==
    [i \in 1..size |-> IF i = size THEN v % 256
                       ELSE IF i = size - 1 THEN (v \div 256) % 256 ELSE 0]

Width(b) == IF b \in {1, 2, 4, 8} THEN b ELSE 1

EncodeObj(o, rs) ==
    IF o.kind = "leaf" THEN o.bytes
    ELSE LET n == IF o.kind = "array" THEN Len(o.refs) ELSE Len(o.refs) \div 2
             marker == (IF o.kind = "array" THEN 160 ELSE 208) + n
         IN <<marker>> \o Concat([i \in 1..Len(o.refs) |-> BE(o.refs[i], rs)])

\* sh.hdr: the first 8 bytes; sh.objs: the objects; sh.root: the root index;
\* sh.sizes: the two size bytes of the trailer; sh.count: the object count
\* the trailer declares.
Build(sh) ==
    LET rs == Width(sh.sizes[2])
        os == Width(sh.sizes[1])
        enc == [i \in 1..Len(sh.objs) |-> EncodeObj(sh.objs[i], rs)]
        body == Concat(enc)
        off(i) == 8 + Len(Concat(SubSeq(enc, 1, i - 1)))
        table == Concat([i \in 1..Len(enc) |-> BE(off(i), os)])
    IN sh.hdr \o body \o table
       \o sh.sizes \o BE(sh.count, 8) \o BE(sh.root, 8) \o BE(8 + Len(body), 8)

Signature == Magic \o Version00

Doc(objs, root) ==
    [hdr |-> Signature, objs |-> objs, root |-> root, sizes |-> <<1, 1>>,
     count |-> Len(objs)]

\* References are drawn from 0..MaxRef; with three objects 3 and up are out
\* of range.
MaxRef == 3

Refs == 0..MaxRef

InRange == 0..2

StrA == Leaf(<<81, 97>>)

StrB == Leaf(<<81, 98>>)

Int5 == Leaf(<<16, 5>>)

True == Leaf(<<9>>)

Tag7 == Leaf(<<112>>)

Arrays0 == {Arr(<<>>)} \cup {Arr(<<r>>) : r \in Refs}
              \cup {Arr(<<r1, r2>>) : r1 \in Refs, r2 \in Refs}

Dicts0 == {Dic(<<>>, <<>>)} \cup {Dic(<<k>>, <<v>>) : k \in Refs, v \in Refs}
             \cup {Dic(<<k1, k2>>, <<v1, v2>>) :
                     k1 \in InRange, k2 \in InRange, v1 \in InRange, v2 \in InRange}

Objs1 == {StrB, Int5, Tag7} \cup {Arr(<<r>>) : r \in Refs}
            \cup {Dic(<<k>>, <<v>>) : k \in InRange, v \in InRange}

Objs2 == {StrA, Int5, Tag7}

ObjShapes ==
    {Doc(<<o0, o1, o2>>, 0) : o0 \in Arrays0 \cup Dicts0, o1 \in Objs1, o2 \in Objs2}

\* a source the markup tokenizer yields no event for
NoMarkup == tokens = <<>>

InitCommon ==
    /\ pos = 0
    /\ offsets = <<>>
    /\ refSize = 0
    /\ stack = <<>>
    /\ cur = 0
    /\ result = NoResult
    /\ taken = 0
    /\ entered = NotEntered
    /\ steps = 0
    /\ aux = NoResult

InitObj ==
    /\ shape \in ObjShapes
    /\ src = Build(shape)
    /\ overflowChecks = TRUE
    /\ entry = "from_binary_reader"
    /\ pc = "start"
    /\ NoMarkup
    /\ castMode = "saturate"
    /\ InitCommon

NextBin == BinBegin \/ Object \/ Return

SpecObj == InitObj /\ [][NextBin]_vars


(***************************************************************************)
(* The reference graph of a described source: object i refers to object r  *)
(* when i is an array or dictionary holding the in-range reference r.      *)
(***************************************************************************)
Nodes(sh) == 0..(Len(sh.objs) - 1)

Edge(sh, i, r) ==
    /\ sh.objs[i + 1].kind # "leaf"
    /\ r \in Nodes(sh)
    /\ \E x \in 1..Len(sh.objs[i + 1].refs) : sh.objs[i + 1].refs[x] = r

RECURSIVE ReachIn(_, _, _)
\* the objects a path of at most n edges leads to from the set S
ReachIn(sh, S, n) ==
    IF n = 0 THEN S
    ELSE ReachIn(sh, S \cup {r \in Nodes(sh) : \E i \in S : Edge(sh, i, r)}, n - 1)

Reachable(sh) == ReachIn(sh, {sh.root} \cap Nodes(sh), Len(sh.objs))

\* some object reachable from the root lies on a cycle
Cyclic(sh) ==
    \E i \in Reachable(sh) :
        \E r \in Nodes(sh) : Edge(sh, i, r) /\ i \in ReachIn(sh, {r}, Len(sh.objs))

RootDict == shape.objs[shape.root + 1].kind = "dict"

\* the key references of the root dictionary
RootKeys ==
    LET refs == shape.objs[shape.root + 1].refs
    IN SubSeq(refs, 1, Len(refs) \div 2)

\* some key reference of the root dictionary resolves to the Integer object
RootHasIntegerKey ==
    /\ RootDict
    /\ \E x \in 1..Len(RootKeys) :
          RootKeys[x] \in Nodes(shape) /\ shape.objs[RootKeys[x] + 1] = Int5

\* dict() has just been handed a key object that decoded to a non-String
NonStringKeyReturned ==
    /\ pc = "return"
    /\ stack # <<>>
    /\ stack[Len(stack)].kind = "dict"
    /\ stack[Len(stack)].i % 2 = 1
    /\ result.v.t # "String"

InvalidKeyObject == result.k = "Err" /\ result.e = "InvalidKeyObject"

\* C4 as stated: a dictionary with a key reference that resolves to a
\* non-String object (here the root dictionary, the Integer object) always
\* fails with InvalidKeyObject, whatever its other pairs hold.
C4_AsStated ==
    (pc = "done" /\ RootHasIntegerKey) => InvalidKeyObject

\* C4 amended: the moment dict() is handed a key that decoded to a non-String
\* value the decode fails with InvalidKeyObject; a dictionary with such a key
\* reference never yields a value (an object stored before that key may fail
\* first, with its own error); a Dict value is finished only from keys that
\* all decoded to Strings.
C4_KeyTypeEnforced ==
    /\ [][NonStringKeyReturned => (pc' = "done" /\ InvalidKeyObject')]_vars
    /\ [][(InvalidKeyObject' /\ ~InvalidKeyObject) => NonStringKeyReturned]_vars
    /\ [](RootHasIntegerKey => ~(pc = "done" /\ result.k = "Ok"))

\* C4 witness: a two-pair root dictionary whose second key is the Integer
\* object has failed with InvalidKeyObject.
C4_Witness ==
    /\ pc = "done" /\ InvalidKeyObject /\ RootDict
    /\ Len(RootKeys) = 2 /\ shape.objs[RootKeys[2] + 1] = Int5
    /\ shape.objs[RootKeys[1] + 1] = StrB

\* C9 as stated: an acyclic reference graph makes resolution end with a Value
\* or an Error; a graph with a cycle makes it return neither, ever.
C9_AsStated ==
    /\ Cyclic(shape) => pc # "done"
    /\ ~Cyclic(shape) => (pc # "overflow" /\ (pc = "done" => result.k \in {"Ok", "Err"}))

RECURSIVE Calls(_, _)
\* the number of object() calls that resolving object i makes, itself
\* included, on an acyclic graph when nothing fails
Calls(sh, i) ==
    IF i \notin Nodes(sh) \/ sh.objs[i + 1].kind = "leaf" THEN 1
    ELSE LET refs == sh.objs[i + 1].refs
             RECURSIVE Sum(_)
             Sum(x) == IF x = 0 THEN 0 ELSE Calls(sh, refs[x]) + Sum(x - 1)
         IN 1 + Sum(Len(refs))

\* C9 amended: on an acyclic graph resolution terminates (with a Value, an
\* Error, or the abort of an out-of-range table access): it never exhausts
\* the stack, every step it takes is a call or a return of object(), and it
\* takes at most two steps per object() call; on a graph with a cycle it never returns a Value: it either
\* stops on the failure of an object decoded before the cycle is re-entered,
\* or recurses until the stack is exhausted.
C9_Termination ==
    /\ ~Cyclic(shape) =>
          /\ pc \in {"start", "object", "return", "done"}
          /\ steps <= 1 + 2 * Calls(shape, shape.root)
    /\ Cyclic(shape) =>
          /\ pc = "done" => result.k \in {"Err", "Panic"}

\* C9 witness: a source whose root array refers to itself has recursed until
\* the stack was exhausted.
C9_Witness ==
    /\ pc = "overflow" /\ Cyclic(shape)
    /\ Len(stack) = MaxDepth
    /\ \A x \in 1..Len(stack) : stack[x].kind = "array"


(***************************************************************************)
(* Sources for the type-tag dispatch: one object whose first byte is any   *)
(* of the 16 high nibbles, placed as the root, as an array element, as a   *)
(* dictionary key or value, or below two containers.                       *)
(***************************************************************************)
\* low nibbles given to the tagged byte
LowNibbles == {0, 9, 15}

Tagged == {Leaf(<<16 * t + lo>>) : t \in 0..15, lo \in LowNibbles}

TagShapes ==
    {Doc(<<x, StrA, StrB>>, 0) : x \in Tagged}
    \cup {Doc(<<Arr(<<1, 2>>), x, StrA>>, 0) : x \in Tagged}
    \cup {Doc(<<Arr(<<1, 2>>), StrA, x>>, 0) : x \in Tagged}
    \cup {Doc(<<Dic(<<1>>, <<2>>), x, StrA>>, 0) : x \in Tagged}
    \cup {Doc(<<Dic(<<1>>, <<2>>), StrA, x>>, 0) : x \in Tagged}
    \cup {Doc(<<Dic(<<1, 2>>, <<1, 1>>), StrA, x>>, 0) : x \in Tagged}
    \cup {Doc(<<Arr(<<1>>), Dic(<<2>>, <<3>>), StrA, x>>, 0) : x \in Tagged}
    \cup {Doc(<<Dic(<<1>>, <<2>>), StrA, Arr(<<1, 3>>), x>>, 0) : x \in Tagged}

InitTags ==
    /\ shape \in TagShapes
    /\ src = Build(shape)
    /\ overflowChecks \in BOOLEAN
    /\ entry = "from_binary_reader"
    /\ pc = "start"
    /\ NoMarkup
    /\ castMode = "saturate"
    /\ InitCommon

SpecTag == InitTags /\ [][NextBin]_vars

\* the high nibbles object() has no decoder for
UnsupportedTags == {7, 8, 9, 11, 12, 14, 15}

\* the high nibble of the first byte of the object last dispatched on
EnteredNibble == src[entered.at + 1] \div 16

ObjectNotSupported(t) == Outcome(Err("ObjectNotSupported", <<t>>, 0))

\* C6: once object resolution has reached an object (root, array element,
\* dictionary key or value) whose first byte has a high nibble t in
\* {7, 8, 9, 0xB, 0xC, 0xE, 0xF}, the decode has failed with
\* ObjectNotSupported(t), and that is the only way ObjectNotSupported arises.
C6_UnsupportedTag ==
    /\ (entered.role # "none" /\ EnteredNibble \in UnsupportedTags) =>
          (pc = "done" /\ result = ObjectNotSupported(EnteredNibble))
    /\ (result.k = "Err" /\ result.e = "ObjectNotSupported") =>
          (entered.role # "none" /\ EnteredNibble \in UnsupportedTags
             /\ result.a = <<EnteredNibble>>)

\* C6 witness: an object tagged 0xF, the value of a dictionary that is itself
\* an array element, has made the decode fail with ObjectNotSupported(15).
C6_Witness ==
    /\ pc = "done" /\ result = ObjectNotSupported(15)
    /\ entered.role = "value" /\ entered.obj = 3
    /\ shape.objs[1].kind = "array"


(***************************************************************************)
(* Sources for the trailer's two size bytes: valid magic and version, a    *)
(* scalar or an array root, and every value 0..255 in either size byte.    *)
(* The objects and the offset table are laid out with one byte per entry   *)
(* wherever the size byte is not itself a valid width.                     *)
(***************************************************************************)
ValidSizes == {1, 2, 4, 8}

SizePairs ==
    {<<b, 1>> : b \in 0..255} \cup {<<1, b>> : b \in 0..255}
    \cup (ValidSizes \X ValidSizes) \cup {<<0, 0>>, <<3, 16>>}

TrailerShapes ==
    {[Doc(objs, 0) EXCEPT !.sizes = sz] :
        objs \in {<<StrA>>, <<Arr(<<1, 2>>), StrA, Int5>>}, sz \in SizePairs}

InitTrailer ==
    /\ shape \in TrailerShapes
    /\ src = Build(shape)
    /\ overflowChecks \in BOOLEAN
    /\ entry = "from_binary_reader"
    /\ pc = "start"
    /\ NoMarkup
    /\ castMode = "saturate"
    /\ InitCommon

SpecTrailer == InitTrailer /\ [][NextBin]_vars

SizesValid == shape.sizes[1] \in ValidSizes /\ shape.sizes[2] \in ValidSizes

\* the trailer was accepted: decoding went on to the offset table and the root
TrailerAccepted == entered.role # "none"

\* C3 as stated: with valid magic and version, a size byte outside {1,2,4,8}
\* makes from_binary_reader fail with InvalidIntegerSize, and two size bytes
\* in {1,2,4,8} let decoding proceed to the offset table and the root object.
C3_AsStated ==
    /\ (pc = "done" /\ ~SizesValid) => result = Outcome(Err("InvalidIntegerSize", <<>>, 0))
    /\ (pc = "done" /\ SizesValid) => TrailerAccepted

\* C3 witness: a reference size of 0 in a build without overflow checks has
\* been accepted and the root string decoded.
C3_Witness ==
    /\ pc = "done" /\ shape.sizes = <<1, 0>> /\ ~overflowChecks
    /\ result = Outcome(Ok(PString(<<97>>), 0))

\* What the code does with the size bytes instead: InvalidTrailer for every
\* rejected size byte, an abort or an accepted trailer for the size byte 0.
TrailerSizeBehaviour ==
    pc = "done" =>
       IF SizesValid THEN TrailerAccepted /\ result.k = "Ok"
       ELSE IF 0 \in {shape.sizes[1], shape.sizes[2]}
                  /\ (shape.sizes[1] = 0 \/ shape.sizes[1] \in ValidSizes)
            THEN IF overflowChecks \/ shape.sizes[1] = 0
                 THEN result.k \in {"Panic", "Err"} /\ ~TrailerAccepted
                 ELSE TrailerAccepted \/ result.e = "InvalidTrailer"
       ELSE result = Outcome(Err("InvalidTrailer", <<>>, 0)) /\ ~TrailerAccepted


(***************************************************************************)
(* Sources for the 8-byte integer path: the tag byte 0x1_, a marker byte   *)
(* whose low nibble is 0xF, a width byte whose low nibble is 3, and eight  *)
(* big-endian payload bytes; the object is the root or an array element.   *)
(***************************************************************************)
Bytes8(hi, mid, lo) == <<hi, mid, mid, mid, mid, mid, mid, lo>>

\* 0, -1, i64::MAX and i64::MIN as two's complement
Extremal ==
    {Bytes8(0, 0, 0), Bytes8(255, 255, 255), Bytes8(127, 255, 255), Bytes8(128, 0, 0)}

Payloads ==
    Extremal \cup {Bytes8(0, 0, 1), Bytes8(255, 255, 254), Bytes8(128, 0, 1),
                   Bytes8(127, 0, 0), Bytes8(255, 0, 0), Bytes8(1, 35, 69),
                   <<255, 255, 255, 255, 0, 0, 0, 0>>, <<0, 0, 0, 0, 255, 255, 255, 255>>}

\* the nibbles the decoder does not look at
FreeNibbles == {0, 3, 15}

IntObjs ==
    {Leaf(<<16 + a, 16 * b + 15, 16 * c + 3>> \o pl) :
        a \in FreeNibbles, b \in {0, 1}, c \in {0, 8}, pl \in Payloads}

IntShapes ==
    {Doc(<<x>>, 0) : x \in IntObjs} \cup {Doc(<<Arr(<<1>>), x>>, 0) : x \in IntObjs}

InitInt ==
    /\ shape \in IntShapes
    /\ src = Build(shape)
    /\ overflowChecks \in BOOLEAN
    /\ entry = "from_binary_reader"
    /\ pc = "start"
    /\ NoMarkup
    /\ castMode = "saturate"
    /\ InitCommon

SpecInt == InitInt /\ [][NextBin]_vars

\* the eight payload bytes of the integer object of the source
Payload == SubSeq(shape.objs[Len(shape.objs)].bytes, 4, 11)

\* the Value the decode returned for the integer object
IntegerValue == IF Len(shape.objs) = 1 THEN result.v ELSE result.v.c[1]

RECURSIVE AddLimbs(_, _, _)
\* the sum of two limb sequences from position i on: <<limbs, carry out>>
AddLimbs(u, w, i) ==
    IF i > Len(u) THEN <<<<>>, 0>>
    ELSE LET rest == AddLimbs(u, w, i + 1)
             sum == u[i] + w[i] + rest[2]
         IN <<<<sum % 65536>> \o rest[1], sum \div 65536>>

\* the signed value i (sign and magnitude) is the value the eight bytes
\* denote in two's complement: the magnitude is below 2^63 and equal to the
\* unsigned payload when i >= 0, and at most 2^63 and adding up with the
\* unsigned payload to 2^64 when i < 0
Denotes(i, bytes) ==
    LET mag == SubSeq(i, 2, 5)
        unsigned == <<bytes[1] * 256 + bytes[2], bytes[3] * 256 + bytes[4],
                      bytes[5] * 256 + bytes[6], bytes[7] * 256 + bytes[8]>>
    IN IF i[1] = 0 THEN mag = unsigned /\ mag[1] < 32768
       ELSE /\ mag # <<0, 0, 0, 0>>
            /\ mag[1] < 32768 \/ mag = <<32768, 0, 0, 0>>
            /\ AddLimbs(mag, unsigned, 1) = <<<<0, 0, 0, 0>>, 1>>

\* the four extremal values as sign and magnitude
ExtremalValue(bytes) ==
    CASE bytes = Bytes8(0, 0, 0) -> <<0, 0, 0, 0, 0>>
      [] bytes = Bytes8(255, 255, 255) -> <<1, 0, 0, 0, 1>>
      [] bytes = Bytes8(127, 255, 255) -> <<0, 32767, 65535, 65535, 65535>>
      [] bytes = Bytes8(128, 0, 0) -> <<1, 32768, 0, 0, 0>>

\* C5: an integer object on the 8-byte path whose payload is the two's
\* complement of 0, -1, 9223372036854775807 or -9223372036854775808 decodes
\* to Integer with exactly that value; for every payload the decode
\* succeeds with the Integer the payload denotes.
C5_ExtremalIntegers ==
    pc = "done" =>
       /\ result.k = "Ok"
       /\ IntegerValue.t = "Integer"
       /\ Denotes(IntegerValue.s, Payload)
       /\ Payload \in Extremal => IntegerValue = PInteger(ExtremalValue(Payload))

\* C5 witness: the payload 80 00 00 00 00 00 00 00 of a root integer has been
\* decoded to -9223372036854775808.
C5_Witness ==
    /\ pc = "done" /\ Len(shape.objs) = 1 /\ Payload = Bytes8(128, 0, 0)
    /\ result = Outcome(Ok(PInteger(<<1, 32768, 0, 0, 0>>), 0))


(***************************************************************************)
(* Sources for the dispatcher: the layout of a binary document under       *)
(* several first eight bytes (the signature, other versions, other         *)
(* magics), with sound and corrupt trailers, whole or cut short; and, for  *)
(* each, the events the markup tokenizer would yield for the same source.  *)
(***************************************************************************)
StartDocument == Ev("StartDocument", "", <<>>)

EndDocument == Ev("EndDocument", "", <<>>)

SE(name) == Ev("StartElement", name, <<>>)

EE(name) == Ev("EndElement", name, <<>>)

Chars(text) == Ev("Characters", "", text)

TokenizerError == Ev("Error", "", <<>>)

\* <plist>body</plist>
Document(body) == <<StartDocument, SE("plist")>> \o body \o <<EE("plist"), EndDocument>>

Headers ==
    {Signature,
     Magic \o <<48, 49>>,
     Magic \o <<255, 255>>,
     <<98, 112, 108, 105, 115, 84, 48, 48>>,
     <<60, 63, 120, 109, 108, 32, 63, 62>>,
     <<255, 254, 0, 0, 255, 254, 0, 0>>}

DispatchObjs ==
    {<<StrA>>, <<Arr(<<1, 2>>), StrA, Int5>>, <<Tag7>>, <<Arr(<<1, 3>>), StrA, Int5>>,
     <<Dic(<<1>>, <<2>>), Int5, StrA>>}

DispatchShapes ==
    {[Doc(objs, 0) EXCEPT !.hdr = h, !.sizes = sz] :
        objs \in DispatchObjs, h \in Headers, sz \in {<<1, 1>>, <<3, 1>>, <<1, 16>>}}

DispatchTokens ==
    {Document(<<SE("string"), Chars(<<97>>), EE("string")>>),
     Document(<<SE("array"), SE("true"), EE("true"), EE("array")>>),
     Document(<<>>),
     <<StartDocument, SE("plist"), SE("string")>>,
     <<TokenizerError>>,
     <<>>}

\* lengths a source is cut to; 64 and up leaves it whole
Cuts == {0, 4, 8, 64}

InitDispatch ==
    /\ shape \in DispatchShapes
    /\ \E n \in Cuts : src = SubSeq(Build(shape), 1, Min(n, Len(Build(shape))))
    /\ tokens \in DispatchTokens
    /\ overflowChecks = TRUE
    /\ entry = "from_reader"
    /\ pc = "start"
    /\ castMode = "saturate"
    /\ InitCommon

NextDispatch == BinBegin \/ Object \/ Return \/ FromReader \/ Xml

SpecDispatch == InitDispatch /\ [][NextDispatch]_vars

InvalidMagicBytes == result.k = "Err" /\ result.e = "InvalidMagicBytes"

\* the source is long enough to hold a magic and does not begin with `bplist`
OtherMagic == Len(src) >= 6 /\ SubSeq(src, 1, 6) # Magic

\* correct magic and version, a whole source, a size byte that is no size
CorruptTrailer ==
    /\ Len(src) >= 26 /\ SubSeq(src, 1, 8) = Signature
    /\ shape.sizes # <<1, 1>>

\* C1: from_reader falls back to the markup reader exactly when the binary
\* reader failed with InvalidMagicBytes, rewinds the source to offset 0
\* first and returns what from_xml_reader returns on it; any other outcome
\* of the binary reader is returned unchanged and the markup reader is not
\* invoked; a source with correct magic and version and a corrupt trailer
\* fails with InvalidTrailer and gets no markup attempt.
C1_Dispatch ==
    /\ [][(pc = "match" /\ InvalidMagicBytes) => (pc' = "xml" /\ pos' = 0)]_vars
    /\ [][(pc = "match" /\ ~InvalidMagicBytes) =>
             (pc' = "done" /\ result' = result /\ taken' = 0)]_vars
    /\ [][pc = "xml" =>
             (pos = 0 /\ pc' = "done" /\ result' = Outcome(from_xml_reader))]_vars
    /\ [](pc = "xml" => (InvalidMagicBytes /\ OtherMagic))
    /\ [](pc = "done" =>
             IF OtherMagic THEN pos = 0 /\ result = Outcome(from_xml_reader)
             ELSE taken = 0 /\ ~InvalidMagicBytes)
    /\ [](CorruptTrailer =>
             (pc # "xml" /\ (pc = "done" => result = Outcome(Err("InvalidTrailer", <<>>, 0)))))

\* C1 witness: a source with another magic has been decoded by the markup
\* reader to the String its events describe.
C1_Witness ==
    /\ pc = "done" /\ OtherMagic /\ taken = 6
    /\ result = Outcome(Ok(PString(<<97>>), 0))

\* a source with correct magic and version and a corrupt trailer, whose
\* events describe a sound document, has failed with InvalidTrailer
C1_NoRetry ==
    /\ pc = "done" /\ CorruptTrailer
    /\ tokens = Document(<<SE("string"), Chars(<<97>>), EE("string")>>)
    /\ result = Outcome(Err("InvalidTrailer", <<>>, 0))


(***************************************************************************)
(* Value trees and their two encodings.  A tree is a leaf, given by its    *)
(* bytes in the binary wire format and its events in the markup format,    *)
(* or an array or a dictionary of trees.  The binary layout puts a         *)
(* container before its children and lists the pairs of a dictionary in    *)
(* the reverse of the markup order.                                        *)
(***************************************************************************)
\* <name>text</name>; the tokenizer yields no character run for empty text
Element(name, text) ==
    IF text = <<>> THEN <<SE(name), EE(name)>> ELSE <<SE(name), Chars(text), EE(name)>>

TLeaf(bin, xml) == [kind |-> "leaf", bin |-> bin, xml |-> xml, kids |-> <<>>, keys |-> <<>>]

TArray(kids) == [kind |-> "array", bin |-> <<>>, xml |-> <<>>, kids |-> kids, keys |-> <<>>]

TDict(keys, kids) == [kind |-> "dict", bin |-> <<>>, xml |-> <<>>, kids |-> kids, keys |-> keys]

\* 2001-01-01T00:00:0 and 2000-12-31T23:59:5
Y2001 == <<50, 48, 48, 49, 45, 48, 49, 45, 48, 49, 84, 48, 48, 58, 48, 48, 58, 48>>

Y2000 == <<50, 48, 48, 48, 45, 49, 50, 45, 51, 49, 84, 50, 51, 58, 53, 57, 58, 53>>

\* a date leaf: the f64 seconds since 2001 and the RFC 3339 text of the instant
TDate(f64, text) == TLeaf(<<51>> \o f64, Element("date", text))

\* the instants 2001-01-01T00:00:00Z and 2001-01-01T00:00:01Z
WholeDates ==
    {TDate(<<0, 0, 0, 0, 0, 0, 0, 0>>, Y2001 \o <<48, 90>>),
     TDate(<<63, 240, 0, 0, 0, 0, 0, 0>>, Y2001 \o <<49, 90>>)}

\* 2001-01-01T00:00:00.5Z, 2001-01-01T00:00:00.25Z and 2000-12-31T23:59:59Z
OtherDates ==
    {TDate(<<63, 224, 0, 0, 0, 0, 0, 0>>, Y2001 \o <<48, 46, 53, 90>>),
     TDate(<<63, 208, 0, 0, 0, 0, 0, 0>>, Y2001 \o <<48, 46, 50, 53, 90>>),
     TDate(<<191, 240, 0, 0, 0, 0, 0, 0>>, Y2000 \o <<57, 90>>)}

\* true, false, 5, -1, 258, 1.5, -0.25 (f32), the bytes 01 02, "a", "", "é" (UTF-16)
PlainLeaves ==
    {TLeaf(<<9>>, <<SE("true"), EE("true")>>),
     TLeaf(<<8>>, <<SE("false"), EE("false")>>),
     TLeaf(<<16, 5>>, Element("integer", <<53>>)),
     TLeaf(<<16, 15, 3>> \o Bytes8(255, 255, 255), Element("integer", <<45, 49>>)),
     TLeaf(<<16, 15, 1, 1, 2>>, Element("integer", <<50, 53, 56>>)),
     TLeaf(<<35, 63, 248, 0, 0, 0, 0, 0, 0>>, Element("real", <<49, 46, 53>>)),
     TLeaf(<<34, 190, 128, 0, 0>>, Element("real", <<45, 48, 46, 50, 53>>)),
     TLeaf(<<66, 1, 2>>, Element("data", <<65, 81, 73, 61>>)),
     TLeaf(<<81, 97>>, Element("string", <<97>>)),
     TLeaf(<<80>>, Element("string", <<>>)),
     TLeaf(<<97, 0, 233>>, Element("string", <<233>>))}

TLeaves == PlainLeaves \cup WholeDates \cup OtherDates

KeyA == <<97>>

KeyB == <<98>>

Trees ==
    TLeaves
    \cup {TArray(<<>>), TDict(<<>>, <<>>)}
    \cup {TArray(<<x>>) : x \in TLeaves}
    \cup {TArray(<<x, y>>) : x \in TLeaves, y \in TLeaves}
    \cup {TDict(<<KeyA>>, <<x>>) : x \in TLeaves}
    \cup {TDict(<<KeyA, KeyB>>, <<x, y>>) : x \in TLeaves, y \in TLeaves}
    \cup {TArray(<<TArray(<<>>), TDict(<<>>, <<>>)>>),
          TDict(<<KeyB>>, <<TArray(<<TDict(<<KeyA>>, <<TDict(<<>>, <<>>)>>)>>)>>)}
    \cup {TArray(<<TDict(<<KeyB, KeyA>>, <<x, TArray(<<x>>)>>)>>) : x \in TLeaves}

RECURSIVE Padded(_, _)
\* the events of the markup encoding of a tree, with the events ws before
\* every key, every child and every end tag of a container
Padded(t, ws) ==
    IF t.kind = "leaf" THEN t.xml
    ELSE IF t.kind = "array"
         THEN <<SE("array")>>
              \o Concat([i \in 1..Len(t.kids) |-> ws \o Padded(t.kids[i], ws)])
              \o ws \o <<EE("array")>>
    ELSE <<SE("dict")>>
         \o Concat([i \in 1..Len(t.kids) |->
                       ws \o Element("key", t.keys[i]) \o ws \o Padded(t.kids[i], ws)])
         \o ws \o <<EE("dict")>>

\* the events of the markup encoding of a tree
XmlEnc(t) == Padded(t, <<>>)

Reverse(q) == [i \in 1..Len(q) |-> q[Len(q) + 1 - i]]

RECURSIVE Flat(_, _)
RECURSIVE Place(_, _, _)
\* the children of container t from the i-th on, laid out from object index
\* `at`: for a dictionary each child is preceded by its key, a String object
Place(t, i, at) ==
    LET join(key, kid, rest) ==
            [krefs |-> (IF t.kind = "dict" THEN <<at>> ELSE <<>>) \o rest.krefs,
             vrefs |-> <<at + Len(key)>> \o rest.vrefs,
             objs |-> key \o kid \o rest.objs]
        child(key, kid) == join(key, kid, Place(t, i + 1, at + Len(key) + Len(kid)))
        keyed(key) == child(key, Flat(t.kids[i], at + Len(key)))
    IN IF i > Len(t.kids) THEN [krefs |-> <<>>, vrefs |-> <<>>, objs |-> <<>>]
       ELSE keyed(IF t.kind = "dict"
                  THEN <<Leaf(<<80 + Len(t.keys[i])>> \o t.keys[i])>> ELSE <<>>)

\* the objects of the binary encoding of a tree, the tree's own object first,
\* at object index base
Flat(t, base) ==
    LET container(p) ==
            <<IF t.kind = "array" THEN Arr(p.vrefs)
              ELSE Dic(Reverse(p.krefs), Reverse(p.vrefs))>> \o p.objs
    IN IF t.kind = "leaf" THEN <<Leaf(t.bin)>> ELSE container(Place(t, 1, base + 1))

TreeDoc(t) ==
    [hdr |-> Signature, objs |-> Flat(t, 0), root |-> 0, sizes |-> <<1, 1>>,
     count |-> Len(Flat(t, 0)), tree |-> t]

InitEquiv ==
    /\ \E t \in Trees : shape = TreeDoc(t)
    /\ src = Build(shape)
    /\ tokens = Document(XmlEnc(shape.tree))
    /\ overflowChecks \in BOOLEAN
    /\ castMode \in {"saturate", "wrap"}
    /\ entry = "from_binary_reader"
    /\ pc = "markup"
    /\ InitCommon

\* The markup encoding is decoded first (tests/equality.rs); its outcome is
\* kept in aux.
XmlFile ==
    /\ pc = "markup"
    /\ pc' = "start"
    /\ aux' = Outcome(from_xml_reader)
    /\ UNCHANGED <<src, tokens, overflowChecks, castMode, pos, offsets, refSize,
                   stack, cur, result, taken, entered, entry, steps, shape>>

NextEquiv == XmlFile \/ NextBin

SpecEquiv == InitEquiv /\ [][NextEquiv]_vars

RECURSIVE Within(_, _)
\* some leaf of tree t is in the set L
Within(t, L) ==
    IF t.kind = "leaf" THEN t \in L
    ELSE \E i \in 1..Len(t.kids) : Within(t.kids[i], L)

\* both decodes succeeded and the Values compare equal
DecodedEqual == result.k = "Ok" /\ aux.k = "Ok" /\ result.v = aux.v

\* C2 as stated: for every value tree, the Value decoded from its binary
\* encoding and the Value decoded from its markup encoding compare equal.
C2_AsStated == pc = "done" => DecodedEqual

\* C2 witness: the DateTime 2001-01-01T00:00:00.5Z has been decoded from both
\* encodings, to an instant four seconds later from the binary one.
C2_Witness ==
    /\ pc = "done" /\ shape.tree = TDate(<<63, 224, 0, 0, 0, 0, 0, 0>>, Y2001 \o <<48, 46, 53, 90>>)
    /\ castMode = "saturate"
    /\ aux = Outcome(Ok(PDateTime(<<RefDate, 0>>), 0))
    /\ result = Outcome(Ok(PDateTime(<<RefDate + 4, 294967295>>), 0))

\* What holds instead: the two Values compare equal for every tree whose
\* DateTime leaves are whole seconds not before the reference date.
EqualApartFromDates ==
    (pc = "done" /\ ~Within(shape.tree, OtherDates)) => DecodedEqual


(***************************************************************************)
(* Markup documents with empty containers: trees over two leaves in which  *)
(* an array or a dictionary without children stands at the root or below   *)
(* one or two containers, encoded with and without character runs between  *)
(* the tags, and decoded by from_xml_reader.                               *)
(***************************************************************************)
LeafTrue == TLeaf(<<9>>, <<SE("true"), EE("true")>>)

LeafA == TLeaf(<<81, 97>>, Element("string", <<97>>))

Empties == {TArray(<<>>), TDict(<<>>, <<>>)}

Level1 == Empties \cup {LeafTrue, LeafA}

\* the containers of one or two trees of T
Over(T) ==
    {TArray(<<x>>) : x \in T}
    \cup {TArray(<<x, y>>) : x \in T, y \in T}
    \cup {TDict(<<KeyA>>, <<x>>) : x \in T}
    \cup {TDict(<<KeyB, KeyA>>, <<x, y>>) : x \in T, y \in T}

Level2 == Over(Level1)

\* containers of one tree of Level2, or of an empty container and one
Level3 ==
    {TArray(<<x>>) : x \in Level2}
    \cup {TDict(<<KeyA>>, <<x>>) : x \in Level2}
    \cup {TArray(<<e, x>>) : e \in Empties, x \in Level2}
    \cup {TDict(<<KeyA, KeyB>>, <<x, e>>) : e \in Empties, x \in Level2}

RECURSIVE HasEmpty(_)
\* tree t is, or holds at some depth, a container without children
HasEmpty(t) ==
    /\ t.kind # "leaf"
    /\ t.kids = <<>> \/ \E i \in 1..Len(t.kids) : HasEmpty(t.kids[i])

EmptyTrees == {t \in Empties \cup Level2 \cup Level3 : HasEmpty(t)}

\* a run of white space between two tags
Space == <<Chars(<<10, 32>>)>>

RECURSIVE TreeValue(_)
RECURSIVE Inserted(_, _)
\* the pairs of dictionary t up to the i-th, as a map
Inserted(t, i) ==
    IF i = 0 THEN <<>>
    ELSE DictInsert(Inserted(t, i - 1), t.keys[i], TreeValue(t.kids[i]))

\* the Value a tree over LeafTrue and LeafA denotes
TreeValue(t) ==
    IF t.kind = "array" THEN PArray([i \in 1..Len(t.kids) |-> TreeValue(t.kids[i])])
    ELSE IF t.kind = "dict" THEN PDict(Inserted(t, Len(t.kids)))
    ELSE IF t = LeafTrue THEN PBoolean(TRUE)
    ELSE PString(<<97>>)

\* from_xml_reader is called on a markup source, given by its events
InitMarkup ==
    /\ src = <<>>
    /\ overflowChecks = TRUE
    /\ castMode = "saturate"
    /\ entry = "from_xml_reader"
    /\ pc = "xml"
    /\ InitCommon

InitEmpty ==
    /\ \E t \in EmptyTrees : shape = TreeDoc(t)
    /\ \E ws \in {<<>>, Space} : tokens = Document(Padded(shape.tree, ws))
    /\ InitMarkup

SpecEmpty == InitEmpty /\ [][Xml]_vars

\* C7: an array or dict element without children, at the root or at any
\* depth inside other arrays and dictionaries, with or without character
\* runs before its end tag, decodes to an empty Array or an empty
\* Dictionary: from_xml_reader returns the Value of the tree, and never the
\* UnexpectedXmlEvent that ended a loop.
C7_EmptyContainers ==
    pc = "done" =>
        /\ HasEmpty(shape.tree)
        /\ result = Outcome(Ok(TreeValue(shape.tree), 0))
        /\ result.e # "UnexpectedXmlEvent"
        /\ taken = Len(tokens) - 1

\* C7 witness: <dict> <key>a</key> <array> <dict> </dict> <array> </array>
\* </array> </dict> has been decoded to {a: [{}, []]}.
C7_Witness ==
    /\ pc = "done"
    /\ shape.tree = TDict(<<KeyA>>, <<TArray(<<TDict(<<>>, <<>>), TArray(<<>>)>>)>>)
    /\ tokens = Document(Padded(shape.tree, Space))
    /\ result = Outcome(Ok(PDict(<<Entry(KeyA, PArray(<<PDict(<<>>), PArray(<<>>)>>))>>), 0))


(***************************************************************************)
(* Markup documents cut short: the events of an acceptable document up to  *)
(* any point, the whole document included.                                 *)
(***************************************************************************)
CutTrees ==
    PlainLeaves \cup WholeDates
    \cup {TArray(<<x>>) : x \in PlainLeaves \cup WholeDates}
    \cup {TDict(<<KeyA>>, <<x>>) : x \in PlainLeaves \cup WholeDates}
    \cup Level2

\* the events up to and including the root's end tag
ThroughRoot(doc) == Len(doc) - 1

InitCut ==
    /\ \E t \in CutTrees : shape = TreeDoc(t)
    /\ \E ws \in {<<>>, Space} :
         \E n \in 0..Len(Document(Padded(shape.tree, ws))) :
            tokens = SubSeq(Document(Padded(shape.tree, ws)), 1, n)
    /\ InitMarkup

SpecCut == InitCut /\ [][Xml]_vars

\* the stream is one of the two encodings of the tree, cut to n events
CutOf(ws, n) ==
    /\ n <= Len(Document(Padded(shape.tree, ws)))
    /\ tokens = SubSeq(Document(Padded(shape.tree, ws)), 1, n)
    /\ n = Len(tokens)

\* the stream ends before the root's end tag
Truncated ==
    \E ws \in {<<>>, Space} :
        \E n \in 0..Len(tokens) :
            CutOf(ws, n) /\ n < ThroughRoot(Document(Padded(shape.tree, ws)))

UnexpectedXmlEof == result = Outcome(Err("UnexpectedXmlEof", <<>>, 0))

\* C8: a stream without tokenizer errors that ends before the root's end
\* tag of an acceptable document (before the root's start tag, inside a
\* leaf, inside an array or a dictionary, just before the root's end tag)
\* makes from_xml_reader fail with UnexpectedXmlEof, after all its events
\* were consumed; the stream that holds the root's end tag is decoded to a
\* Value.
C8_PrematureEof ==
    pc = "done" =>
        IF Truncated THEN UnexpectedXmlEof /\ taken = Len(tokens)
        ELSE result.k = "Ok"

\* C8 witness: the stream <plist> <dict> <key>a</key> <string>, cut inside
\* the leaf, has failed with UnexpectedXmlEof.
C8_Witness ==
    /\ pc = "done"
    /\ tokens = <<StartDocument, SE("plist"), SE("dict"), SE("key"), Chars(KeyA), EE("key"),
                  SE("string")>>
    /\ Truncated
    /\ UnexpectedXmlEof


(***************************************************************************)
(* Event streams for xml_array: an array's start tag followed by every     *)
(* sequence of up to MaxTail events of an alphabet, balanced or not, and a *)
(* few longer streams.  The explicit-lookahead formulation of the          *)
(* container loops is the one the specification describes.                 *)
(***************************************************************************)
MaxTail == 3

Alphabet ==
    {SE("array"), EE("array"), SE("dict"), EE("dict"), SE("key"), EE("key"),
     SE("string"), EE("string"), Chars(<<97>>), TokenizerError}

RECURSIVE Tails(_)
\* the sequences of n events
Tails(n) ==
    IF n = 0 THEN {<<>>}
    ELSE {Append(s, e) : s \in Tails(n - 1), e \in Alphabet}

LongStreams ==
    {<<SE("array"), SE("array"), EE("array"), SE("string"), Chars(<<97>>), EE("string"),
       EE("array")>>,
     <<SE("array"), SE("dict"), SE("key"), Chars(<<97>>), EE("key"), SE("array"),
       EE("array"), EE("dict"), EE("array")>>,
     <<SE("array"), SE("dict"), SE("key"), Chars(<<97>>), EE("key"), SE("string"),
       EE("array"), EE("dict"), EE("array")>>,
     <<SE("array"), SE("array"), SE("true"), EE("array"), EE("array"), EE("array")>>,
     <<SE("array"), SE("true"), EE("true"), SE("integer"), Chars(<<53>>), EE("array")>>,
     <<Chars(<<32>>), SE("array"), Chars(<<32>>), SE("false"), EE("false"), Chars(<<32>>),
       EE("array"), EE("plist")>>}

Streams ==
    LongStreams \cup {<<SE("array")>> \o s : s \in UNION {Tails(n) : n \in 0..MaxTail}}

InitStream ==
    /\ tokens \in Streams
    /\ shape = Doc(<<>>, 0)
    /\ src = <<>>
    /\ overflowChecks = TRUE
    /\ castMode = "saturate"
    /\ entry = "xml_array"
    /\ pc = "xml_array"
    /\ InitCommon

\* xml_array is called on the stream.
XmlArray ==
    LET returned(r) ==
            Apply([Conf EXCEPT !.pc = "done", !.result = Outcome(r), !.taken = r.p - 1])
    IN pc = "xml_array" /\ returned(xml_array(1))

SpecStream == InitStream /\ [][XmlArray]_vars

RECURSIVE SkipChars(_)
\* the position of the next structural event from i on
SkipChars(i) ==
    IF i <= Len(events) /\ events[i].ty = "Characters" THEN SkipChars(i + 1) ELSE i

RECURSIVE lookahead_object(_)
RECURSIVE lookahead_array_loop(_, _)
RECURSIVE lookahead_dict_loop(_, _)

\* peek the next structural event; if it is the array's end tag, consume it
\* and stop; otherwise parse a child and require success
lookahead_array_loop(i, array) ==
    LET child(o) ==
            IF o.k = "Ok" THEN lookahead_array_loop(o.p, Append(array, o.v)) ELSE o
        peeked(j) ==
            IF j <= Len(events) /\ IsEnd(events[j], "array") THEN Ok(PArray(array), j + 1)
            ELSE child(lookahead_object(j))
    IN peeked(SkipChars(i))

lookahead_array(i) ==
    LET loop(s) == IF s.k # "Ok" THEN s ELSE lookahead_array_loop(s.p, <<>>)
    IN loop(xml_start(i, "array"))

\* the same for a dictionary: a key, then a value, both required
lookahead_dict_loop(i, dict) ==
    LET insert(key, value) ==
            IF value.k # "Ok" THEN value
            ELSE lookahead_dict_loop(value.p, DictInsert(dict, key.a, value.v))
        pair(key) == IF key.k # "Ok" THEN key ELSE insert(key, lookahead_object(key.p))
        peeked(j) ==
            IF j <= Len(events) /\ IsEnd(events[j], "dict") THEN Ok(PDict(dict), j + 1)
            ELSE pair(xml_content(j, "key"))
    IN peeked(SkipChars(i))

lookahead_dict(i) ==
    LET loop(s) == IF s.k # "Ok" THEN s ELSE lookahead_dict_loop(s.p, <<>>)
    IN loop(xml_start(i, "dict"))

\* xml_object with the containers in the lookahead formulation
lookahead_object(i) ==
    IF i > Len(events) THEN xml_object(i)
    ELSE IF events[i].ty = "Characters" THEN lookahead_object(i + 1)
    ELSE IF events[i] = SE("array") THEN lookahead_array(i)
    ELSE IF events[i] = SE("dict") THEN lookahead_dict(i)
    ELSE xml_object(i)

RECURSIVE Nested(_, _, _)
\* from the i-th event on, with the elements `open` open (innermost first),
\* every end tag closes the innermost open element
Nested(s, i, open) ==
    IF i > Len(s) THEN TRUE
    ELSE IF s[i].ty = "StartElement" THEN Nested(s, i + 1, <<s[i].name>> \o open)
    ELSE IF s[i].ty = "EndElement"
         THEN open # <<>> /\ open[1] = s[i].name /\ Nested(s, i + 1, Tail(open))
    ELSE Nested(s, i + 1, open)

\* the tags of the stream are properly nested, as the tokenizer has them
Balanced == Nested(tokens, 1, <<>>)

\* xml_array returned what r is and consumed what r consumed
SameAs(r) == result = Outcome(r) /\ taken = r.p - 1

\* r is the failure on an array's or a dictionary's end tag
EndTagFailure(r) ==
    /\ r.k = "Err" /\ r.e = "UnexpectedXmlEvent"
    /\ r.ev \in {EE("array"), EE("dict")}

C10_Sentinel ==
    /\ pc = "done" /\ ~Balanced
    /\ tokens = <<SE("array"), SE("string"), EE("array")>>
    /\ result = Outcome(Ok(PArray(<<>>), 0))
    /\ lookahead_array(1) = ErrEv(EE("array"), 4)


(***************************************************************************)
(* Leaf elements with several character runs: every leaf element at the    *)
(* root, and a key in a dictionary, holding up to MaxRuns character runs.  *)
(***************************************************************************)
MaxRuns == 3

\* the texts 1, 2, a and a space
RunTexts == {<<49>>, <<50>>, <<97>>, <<32>>}

RECURSIVE Runs(_)
\* the sequences of n texts
Runs(n) == IF n = 0 THEN {<<>>} ELSE {Append(r, t) : r \in Runs(n - 1), t \in RunTexts}

LeafNames == {"integer", "real", "date", "data", "string", "key"}

\* the leaf element `name` holding the character runs, as the root value
LeafDocument(name, runs) ==
    LET element == <<SE(name)>> \o [i \in 1..Len(runs) |-> Chars(runs[i])] \o <<EE(name)>>
    IN IF name = "key"
       THEN Document(<<SE("dict")>> \o element \o <<SE("true"), EE("true"), EE("dict")>>)
       ELSE Document(element)

InitRuns ==
    /\ \E name \in LeafNames :
         \E runs \in UNION {Runs(n) : n \in 0..MaxRuns} : tokens = LeafDocument(name, runs)
    /\ shape = Doc(<<>>, 0)
    /\ InitMarkup

SpecRuns == InitRuns /\ [][Xml]_vars

\* the name of the leaf element of the document
LeafName == IF tokens[3] = SE("dict") THEN "key" ELSE tokens[3].name

\* the index of the leaf's start tag
LeafStart == IF LeafName = "key" THEN 4 ELSE 3

RECURSIVE RunsFrom(_)
\* the texts of the character runs from the i-th event on
RunsFrom(i) ==
    IF tokens[i].ty = "Characters" THEN <<tokens[i].text>> \o RunsFrom(i + 1) ELSE <<>>

\* the in-order concatenation of the leaf's character runs
AllRuns == Concat(RunsFrom(LeafStart + 1))

\* the leaf's last character run, the empty text if it has none
LastRun ==
    IF RunsFrom(LeafStart + 1) = <<>> THEN <<>>
    ELSE RunsFrom(LeafStart + 1)[Len(RunsFrom(LeafStart + 1))]

\* what the document decodes to when the conversion step of the leaf is
\* handed text
Converted(text) ==
    CASE LeafName = "string" -> Ok(PString(text), 0)
      [] LeafName = "key" -> Ok(PDict(<<Entry(text, PBoolean(TRUE))>>), 0)
      [] LeafName = "integer" ->
            IF ParseI64(text) = <<>> THEN Err("IntError", <<>>, 0)
            ELSE Ok(PInteger(ParseI64(text)), 0)
      [] LeafName = "real" ->
            IF ParseF64(text) = <<>> THEN Err("FloatError", <<>>, 0)
            ELSE Ok(PReal(ParseF64(text)), 0)
      [] LeafName = "date" ->
            IF ParseRfc3339(text) = <<>> THEN Err("DateError", <<>>, 0)
            ELSE Ok(PDateTime(<<ParseRfc3339(text)[1], 0>>), 0)
      [] LeafName = "data" ->
            IF Malformed(FromBase64(Stripped(text))) THEN Err("Base64Error", <<>>, 0)
            ELSE Ok(PData(FromBase64(Stripped(text))), 0)

LastRunOnly == pc = "done" => result = Converted(LastRun)


(***************************************************************************)
(* Event streams for the driver: every short sequence of events, and the   *)
(* start of a document followed by every body of up to MaxBody events and  *)
(* one of several ends.                                                    *)
(***************************************************************************)
MaxBody == 4

DriverEvents ==
    {StartDocument, EndDocument, SE("plist"), EE("plist"), SE("string"), EE("string"),
     SE("array"), EE("array"), Chars(<<97>>)}

BodyEvents == {SE("string"), EE("string"), SE("array"), EE("array"), Chars(<<97>>)}

RECURSIVE Sequences(_, _)
\* the sequences of n elements of E
Sequences(E, n) ==
    IF n = 0 THEN {<<>>} ELSE {Append(s, e) : s \in Sequences(E, n - 1), e \in E}

DriverStreams ==
    UNION {Sequences(DriverEvents, n) : n \in 0..3}
    \cup {<<StartDocument>> \o pre \o <<SE("plist")>> \o body \o post :
            pre \in {<<>>, <<Chars(<<10>>)>>},
            body \in UNION {Sequences(BodyEvents, n) : n \in 0..MaxBody},
            post \in {<<>>, <<EE("plist")>>, <<EE("plist"), EndDocument>>,
                      <<SE("true"), EE("true"), EE("plist")>>}}

InitDriver ==
    /\ tokens \in DriverStreams
    /\ shape = Doc(<<>>, 0)
    /\ InitMarkup

SpecDriver == InitDriver /\ [][Xml]_vars

\* the i-th event is e
At(i, e) == i <= Len(tokens) /\ tokens[i] = e

RECURSIVE ValueEnd(_)
RECURSIVE ItemsEnd(_)
RECURSIVE PairsEnd(_)
\* the position after the value element that starts with the i-th event; 0
\* if no value element starts there
ValueEnd(i) ==
    IF i > Len(tokens) \/ i = 0 THEN 0
    ELSE IF tokens[i].ty # "StartElement" THEN 0
    ELSE IF tokens[i].name = "array" THEN ItemsEnd(i + 1)
    ELSE IF tokens[i].name = "dict" THEN PairsEnd(i + 1)
    ELSE IF tokens[i].name \in {"true", "false", "integer", "real", "date", "data", "string"}
         THEN IF At(SkipChars(i + 1), EE(tokens[i].name)) THEN SkipChars(i + 1) + 1 ELSE 0
    ELSE 0

\* the position after the end tag of the array whose children start at i
ItemsEnd(i) ==
    IF i = 0 \/ SkipChars(i) > Len(tokens) THEN 0
    ELSE IF At(SkipChars(i), EE("array")) THEN SkipChars(i) + 1
    ELSE ItemsEnd(ValueEnd(SkipChars(i)))

\* the position after the end tag of the dictionary whose pairs start at i
PairsEnd(i) ==
    IF i = 0 \/ SkipChars(i) > Len(tokens) THEN 0
    ELSE IF At(SkipChars(i), EE("dict")) THEN SkipChars(i) + 1
    ELSE IF At(SkipChars(i), SE("key")) /\ At(SkipChars(SkipChars(i) + 1), EE("key"))
         THEN PairsEnd(ValueEnd(SkipChars(SkipChars(SkipChars(i) + 1) + 1)))
    ELSE 0

\* the position after the root's start tag; 0 if the stream does not begin
\* with the start of the document, character runs and the root's start tag
RootOpen ==
    IF At(1, StartDocument) /\ At(SkipChars(2), SE("plist")) THEN SkipChars(2) + 1 ELSE 0

\* the stream continues from v with one value element, character runs and
\* the root's end tag
OneValueFrom(v) ==
    /\ RootOpen # 0
    /\ ValueEnd(v) # 0
    /\ At(SkipChars(ValueEnd(v)), EE("plist"))

\* the shape as stated: the value element follows the root's start tag
ShapeAsStated == OneValueFrom(RootOpen)

\* the shape with character runs before the value element as well
Shape == OneValueFrom(SkipChars(RootOpen))

\* the position of the root's end tag in a stream of the shape
RootClose == SkipChars(ValueEnd(SkipChars(RootOpen)))

\* C12 as stated: from_xml_reader returns Ok only for streams of the shape
\* start of document, character runs, root start tag, one value element,
\* character runs, root end tag.
C12_AsStated == (pc = "done" /\ result.k = "Ok") => ShapeAsStated

\* C12: on a stream whose end tags each close the innermost open element,
\* from_xml_reader returns Ok(v) only for the shape start of document,
\* character runs, root start tag, character runs, one value element with
\* value v, character runs, root end tag, and consumes no event after the
\* root's end tag; on any stream, a root without a value element fails with
\* UnexpectedXmlEvent carrying the root's end tag, a second element after
\* the value fails with UnexpectedXmlEvent carrying its start tag, and a
\* stream that ends while a step is pending fails with UnexpectedXmlEof.
C12_Protocol ==
    pc = "done" =>
        /\ (result.k = "Ok" /\ Balanced) =>
              /\ Shape
              /\ taken = RootClose
              /\ result.v = xml_object(RootOpen).v
        /\ (RootOpen # 0 /\ At(SkipChars(RootOpen), EE("plist"))) =>
              result = Outcome(ErrEv(EE("plist"), 0))
        /\ (RootOpen # 0 /\ ValueEnd(SkipChars(RootOpen)) # 0
              /\ RootClose <= Len(tokens) /\ tokens[RootClose].ty = "StartElement") =>
              result = Outcome(ErrEv(tokens[RootClose], 0)) /\ taken = RootClose
        /\ \/ Len(tokens) = 0
           \/ At(1, StartDocument) /\ SkipChars(2) > Len(tokens)
           \/ RootOpen # 0 /\ SkipChars(RootOpen) > Len(tokens)
           \/ RootOpen # 0 /\ ValueEnd(SkipChars(RootOpen)) # 0 /\ RootClose > Len(tokens)
           => UnexpectedXmlEof /\ taken = Len(tokens)

\* C12 witness: on the start of the document, a character run, <plist>,
\* <array> <string> </string> </array>, </plist> and the end of the
\* document, from_xml_reader has returned [""] and consumed the events
\* through the root's end tag.
C12_Witness ==
    /\ pc = "done"
    /\ tokens = <<StartDocument, Chars(<<10>>), SE("plist"), SE("array"), SE("string"),
                  EE("string"), EE("array"), EE("plist"), EndDocument>>
    /\ result = Outcome(Ok(PArray(<<PString(<<>>)>>), 0))
    /\ taken = 8

\* a second element after the value has failed with UnexpectedXmlEvent
C12_SecondElement ==
    /\ pc = "done"
    /\ tokens = <<StartDocument, SE("plist"), SE("string"), EE("string"), SE("true"),
                  EE("true"), EE("plist")>>
    /\ result = Outcome(ErrEv(SE("true"), 0))


(***************************************************************************)
(* The Value of a reference as a function of the byte source and the       *)
(* index alone, without a cursor: the object at offsets[obj], its          *)
(* references resolved the same way.                                       *)
(***************************************************************************)
RECURSIVE Resolve(_, _)
RECURSIVE ResolvePairs(_, _, _)
\* the map of the first n pairs of the zipped references refs, NoValue if a
\* key or a value has no Value or a key is no String
ResolvePairs(refs, n, fuel) ==
    LET insert(rest, key, value) ==
            IF rest = NoValue \/ key = NoValue \/ value = NoValue THEN NoValue
            ELSE IF key.t # "String" THEN NoValue
            ELSE PDict(DictInsert(rest.c, key.s, value))
    IN IF n = 0 THEN PDict(<<>>)
       ELSE insert(ResolvePairs(refs, n - 1, fuel),
                   Resolve(refs[2 * n - 1], fuel), Resolve(refs[2 * n], fuel))

\* the Value of object obj, NoValue if it has none within fuel levels
Resolve(obj, fuel) ==
    LET items(refs) ==
            IF \E k \in 1..Len(refs) : Resolve(refs[k], fuel - 1) = NoValue THEN NoValue
            ELSE PArray([k \in 1..Len(refs) |-> Resolve(refs[k], fuel - 1)])
        container(tag, refs) ==
            IF refs.k # "Ok" THEN NoValue
            ELSE IF tag = 10 THEN items(refs.a)
            ELSE ResolvePairs(refs.a, Len(refs.a) \div 2, fuel - 1)
        value(r) == IF r.k # "Ok" THEN NoValue ELSE r.v
        tagged(tag, at) ==
            IF tag \in {10, 13}
            THEN container(tag, IF tag = 10 THEN array_refs(at) ELSE dict_refs(at))
            ELSE value(leaf(tag, at))
        decode(buf, at) == IF buf.k # "Ok" THEN NoValue ELSE tagged(buf.a[1] \div 16, at)
    IN IF fuel = 0 \/ obj >= Len(offsets) THEN NoValue
       ELSE decode(ReadExact(offsets[obj + 1], 1), offsets[obj + 1])

\* what the frame's loop has resolved so far is the Value of each reference,
\* in reference order
FrameResolved(f) ==
    IF f.kind = "array"
    THEN /\ Len(f.acc) = f.i - 1
         /\ \A k \in 1..Len(f.acc) :
               f.acc[k] # NoValue /\ f.acc[k] = Resolve(f.refs[k], MaxDepth)
    ELSE /\ PDict(f.acc) = ResolvePairs(f.refs, (f.i - 1) \div 2, MaxDepth)
         /\ f.i % 2 = 0 => PString(f.key) = Resolve(f.refs[f.i - 1], MaxDepth)

\* C13: every per-type decoder is entered with the cursor at the offset of
\* its object, wherever the cursor was left before; the Value produced for
\* a reference is the one the byte source and the index determine: the
\* elements of an array are the Values of its references in reference
\* order (a reference that occurs twice gives two equal Values), and the
\* Value returned is that of the root.
C13_PositionIndependent ==
    /\ entered.obj >= 0 =>
          /\ entered.obj < Len(offsets)
          /\ entered.at = offsets[entered.obj + 1]
    /\ \A n \in 1..Len(stack) : FrameResolved(stack[n])
    /\ (pc = "done" /\ result.k = "Ok") => result.v = Resolve(shape.root, MaxDepth)

\* C13 witness: the array [1, 1] over the String "b" has resolved its second
\* reference: the first decode had left the cursor behind the String, the
\* decoder was entered at the String's offset again, and the second Value
\* equals the first.
C13_Witness ==
    /\ pc = "return" /\ Len(stack) = 1
    /\ stack[1].refs = <<1, 1>> /\ stack[1].i = 2
    /\ stack[1].acc = <<PString(<<98>>)>>
    /\ entered.obj = 1 /\ entered.at = offsets[2]
    /\ result.v = stack[1].acc[1]
    /\ pos = offsets[2] + 2


(***************************************************************************)
(* Variable-length integers: read_int on a marker byte, a width byte and   *)
(* eight payload bytes, for every low nibble of either byte, under both    *)
(* build profiles.                                                         *)
(***************************************************************************)
Nibbles == 0..15

\* high nibbles of the marker and of the width byte
HighNibbles == {0, 1, 10, 15}

IntPayloads == {<<1, 2, 3, 4, 5, 6, 7, 8>>, <<255, 254, 253, 252, 251, 250, 249, 248>>}

InitReadInt ==
    /\ \E mh \in HighNibbles, ml \in Nibbles, wh \in HighNibbles, wl \in Nibbles :
         \E payload \in IntPayloads : src = <<16 * mh + ml, 16 * wh + wl>> \o payload
    /\ overflowChecks \in BOOLEAN
    /\ shape = Doc(<<>>, 0)
    /\ castMode = "saturate"
    /\ entry = "read_int"
    /\ pc = "read_int"
    /\ NoMarkup
    /\ InitCommon

\* read_int is called with the cursor at the marker byte.
ReadInt ==
    LET returned(r) ==
            Apply([Conf EXCEPT !.pc = "done", !.result = Outcome(r), !.pos = r.p,
                               !.taken = r.p])
    IN pc = "read_int" /\ returned(read_int(0))

SpecReadInt == InitReadInt /\ [][ReadInt]_vars

\* the low nibbles of the marker byte and of the width byte
MarkerNibble == src[1] % 16

WidthNibble == src[2] % 16

\* the big-endian unsigned value of the n bytes after the width byte, as a
\* u64 in 16-bit limbs
Following(n) ==
    LET padded == [i \in 1..(8 - n) |-> 0] \o SubSeq(src, 3, 2 + n)
    IN [k \in 1..4 |-> 256 * padded[2 * k - 1] + padded[2 * k]]

Value(limbs, consumed) ==
    /\ result.k = "Ok" /\ result.a = limbs
    /\ taken = consumed

InvalidIntegerSize == result.k = "Err" /\ result.e = "InvalidIntegerSize"

\* C14 as stated: a marker whose low nibble is not 0xF gives that nibble and
\* consumes one byte; after a 0xF nibble, the low nibble n of the next byte
\* gives the big-endian value of the following 2^n bytes for n in 0..3 and
\* InvalidIntegerSize for every n in 4..15.
C14_AsStated ==
    pc = "done" =>
        IF MarkerNibble # 15 THEN Value(<<0, 0, 0, MarkerNibble>>, 1)
        ELSE IF WidthNibble <= 3 THEN Value(Following(Pow2(WidthNibble)), 2 + Pow2(WidthNibble))
        ELSE InvalidIntegerSize

\* C14 witness: after the marker 0x1F, the width byte 0x08 has been taken
\* for a width of one byte in a build without overflow checks.
C14_Witness ==
    /\ pc = "done" /\ ~overflowChecks
    /\ src[1] = 31 /\ src[2] = 8
    /\ Value(<<0, 0, 0, src[3]>>, 3)

\* What holds instead: `1u8 << n` for n in 8..15 panics when overflow is
\* checked and shifts by n - 8 when it is not, so n in 8..11 is taken for a
\* width of 1, 2, 4 or 8.
ReadIntBehaviour ==
    pc = "done" =>
        IF MarkerNibble # 15 THEN Value(<<0, 0, 0, MarkerNibble>>, 1)
        ELSE IF WidthNibble <= 3 THEN Value(Following(Pow2(WidthNibble)), 2 + Pow2(WidthNibble))
        ELSE IF WidthNibble <= 7 THEN InvalidIntegerSize /\ taken = 2
        ELSE IF overflowChecks THEN result.k = "Panic"
        ELSE IF WidthNibble <= 11
             THEN Value(Following(Pow2(WidthNibble - 8)), 2 + Pow2(WidthNibble - 8))
        ELSE InvalidIntegerSize /\ taken = 2


(***************************************************************************)
(* Documents whose root index, references or declared object count do not  *)
(* fit the offset table: three objects, the root index in 0..MaxRoot and   *)
(* the count the trailer declares below, at and above three.               *)
(***************************************************************************)
MaxRoot == 4

DeclaredCounts == {0, 2, 3, 4, 40}

BoundsObjs ==
    {<<Arr(<<1, 2>>), StrA, Int5>>}
    \cup {<<Arr(<<r>>), StrA, Int5>> : r \in Refs}
    \cup {<<Dic(<<k>>, <<v>>), StrA, Int5>> : k \in Refs, v \in Refs}
    \cup {<<StrA, Arr(<<r>>), Dic(<<0>>, <<r>>)>> : r \in Refs}

BoundsShapes ==
    {[Doc(objs, root) EXCEPT !.count = n] :
        objs \in BoundsObjs, root \in 0..MaxRoot, n \in DeclaredCounts}

InitBounds ==
    /\ shape \in BoundsShapes
    /\ src = Build(shape)
    /\ overflowChecks = TRUE
    /\ entry = "from_binary_reader"
    /\ pc = "start"
    /\ NoMarkup
    /\ castMode = "saturate"
    /\ InitCommon

SpecBounds == InitBounds /\ [][NextBin]_vars

\* the offset table holds fewer entries than the trailer declares
ShortTable == shape.count > Len(shape.objs)

Aborted == result.k = "Panic"

\* C15 as stated: every index looked up in the offset table is smaller than
\* the number of entries read, and a document with a root index or a
\* reference out of range, or with an offset table shorter than the
\* declared count, makes from_binary_reader return an Error, never abort.
C15_AsStated ==
    /\ pc = "object" => cur < Len(offsets)
    /\ pc = "done" => ~Aborted
    /\ (pc = "done" /\ ShortTable) => result.k = "Err"

\* C15 witness: the root array [3] of a document of three objects has made
\* object() look up offsets[3], and the decode aborted.
C15_Witness ==
    /\ pc = "done" /\ shape.root = 0 /\ shape.count = 3
    /\ shape.objs[1] = Arr(<<3>>)
    /\ cur = 3 /\ Len(offsets) = 3
    /\ result = Outcome(Panic("index out of bounds", 0))

\* a document whose trailer declares 40 objects over a table of three has
\* been decoded to a Value
C15_ShortTableAccepted ==
    /\ pc = "done" /\ shape.count = 40 /\ shape.root = 1
    /\ Len(offsets) = 29
    /\ result = Outcome(Ok(PString(<<97>>), 0))

\* What holds instead: a lookup out of range aborts; the table read takes
\* what the source holds from the table's offset on, up to the declared
\* count, the trailer's bytes included.
BoundsBehaviour ==
    /\ [][(pc = "object" /\ cur >= Len(offsets)) => (pc' = "done" /\ Aborted')]_vars
    /\ [](pc \in {"object", "return"} =>
            Len(offsets) = Min(shape.count, Len(shape.objs) + 26))


(***************************************************************************)
(* Objects whose declared count exceeds what the source holds: a Data or   *)
(* String object, at the root or in an array, and an array and a           *)
(* dictionary, declaring up to 255 bytes or references over a shorter      *)
(* rest of the source.  The object is the last of the document; the offset *)
(* table and the trailer follow it.                                        *)
(***************************************************************************)
DeclaredLengths == {0, 1, 2, 14, 40, 255}

PayloadLengths == {0, 1, 2, 14}

\* the marker of an object of the tag that declares n: the low nibble, or
\* 0xF and a one-byte integer
Counted(tag, n) == IF n < 15 THEN <<16 * tag + n>> ELSE <<16 * tag + 15, 16, n>>

CountedObjs ==
    {Leaf(Counted(tag, n) \o [i \in 1..m |-> 97]) :
        tag \in {4, 5}, n \in DeclaredLengths, m \in PayloadLengths}
    \cup {Leaf(Counted(10, 40)), Leaf(Counted(13, 40))}

CountShapes ==
    {Doc(<<o>>, 0) : o \in CountedObjs} \cup {Doc(<<Arr(<<1>>), o>>, 0) : o \in CountedObjs}

InitCounts ==
    /\ shape \in CountShapes
    /\ src = Build(shape)
    /\ overflowChecks = TRUE
    /\ entry = "from_binary_reader"
    /\ pc = "start"
    /\ NoMarkup
    /\ castMode = "saturate"
    /\ InitCommon

SpecCounts == InitCounts /\ [][NextBin]_vars

\* the bytes of the object that declares the count
CountedBytes == shape.objs[Len(shape.objs)].bytes

CountedTag == CountedBytes[1] \div 16

\* the count the object declares
Declared == IF CountedBytes[1] % 16 = 15 THEN CountedBytes[3] ELSE CountedBytes[1] % 16

\* the bytes the object needs after its marker
Needed == IF CountedTag = 13 THEN 2 * Declared ELSE Declared

\* the bytes the source holds after the object's marker
Remaining ==
    Len(src) - (8 + (IF Len(shape.objs) = 2 THEN 2 ELSE 0)
                  + (IF CountedBytes[1] % 16 = 15 THEN 3 ELSE 1))

\* the Value decoded for the object
Counted_Value == IF Len(shape.objs) = 2 THEN result.v.c[1] ELSE result.v

\* the number of bytes or elements of that Value
Counted_Length ==
    IF CountedTag \in {4, 5} THEN Len(Counted_Value.s) ELSE Len(Counted_Value.c)

\* C16 as stated: a decoded Data, String, array or dictionary holds exactly
\* the declared count of bytes, references or pairs, and when fewer bytes
\* than declared remain in the source the decode fails with an I/O error.
C16_AsStated ==
    pc = "done" =>
        IF Remaining < Needed THEN result = Outcome(IoError(0))
        ELSE result.k = "Ok" /\ Counted_Length = Declared

\* C16 witness: a Data object that declares 255 bytes, followed by 2 bytes,
\* the offset table and the trailer, has been decoded to a Data of 29
\* bytes.
C16_Witness ==
    /\ pc = "done" /\ Len(shape.objs) = 1
    /\ CountedBytes = <<79, 16, 255, 97, 97>>
    /\ result.k = "Ok" /\ result.v.t = "Data"
    /\ result.v.s = SubSeq(src, 12, Len(src))
    /\ Len(result.v.s) = 29

\* a dictionary that declares 40 pairs has been decoded to the empty
\* Dictionary
C16_EmptyDict ==
    /\ pc = "done" /\ CountedBytes = Counted(13, 40) /\ Len(shape.objs) = 1
    /\ result = Outcome(Ok(PDict(<<>>), 0))

\* What holds instead: a Data or String holds the declared count of bytes or
\* all the bytes that remain in the source, whichever is fewer, and no decode
\* fails with an I/O error for a count too large.
CountsBehaviour ==
    pc = "done" =>
        /\ result # Outcome(IoError(0))
        /\ CountedTag \in {4, 5} =>
              /\ result.k = "Ok"
              /\ Counted_Length = Min(Declared, Remaining)

====
